---- MODULE Spec2Model ----
(***************************************************************************)
(* Gesture-controlled LED / servo system.                                  *)
(*                                                                         *)
(* Three control loops share one interaction model:                        *)
(*   hardware    gesture_control_system.py      (DeviceController, GPIO)   *)
(*   simulation  gesture_control_simulation.py  (DeviceSimulator)          *)
(*   serial      gesture_control_client_arduino.py (ArduinoController)     *)
(*                                                                         *)
(* One loop iteration (one processed frame) is one action.  The wall clock *)
(* time.time() is a whole number of seconds; a loop iteration that fires   *)
(* reads the clock twice, and the second read may be later than the first. *)
(***************************************************************************)
EXTENDS Integers, Sequences, FiniteSets, TLC

VARIABLES
    variant,             \* which program runs: "hardware", "simulation", "serial"
    mode,                \* main(): mode   /  ArduinoController.mode
    led_on, led_level,   \* controller / simulator / arduino fields
    motor_on, motor_level,
    last_gesture,        \* main(): last_gesture ("None" for None)
    gesture_start_time,  \* main(): gesture_start_time (NoTime for None)
    now,                 \* value of the latest time.time() read
    gesture,             \* gesture returned by process_frame for the latest frame
    connected,           \* ArduinoController.connected
    serial_ok,           \* serial_conn.write / in_waiting do not raise (port still usable)
    reader_alive,        \* the _monitor_responses thread has not left its loop
    \* observers of the latest loop iteration (not program state)
    actor,               \* who took the latest step: "main", "reader", "env" ("none" initially)
    frame_time,          \* first clock read of the latest frame
    fired,               \* the latest frame took the elapsed >= HOLD_DURATION branch
    out,                 \* what the latest frame did: device calls, or lines written
    ended_after,         \* the latest frame ended a hold session that had run this long
    \* observers of the current hold session / run of frames
    last_fire,           \* frame time of the latest fire of the current hold session
    run_start,           \* first frame time of the current run of frames of one thumb gesture
    run_fresh,           \* that first frame created the hold session
    run_fires,           \* fires during the current run
    \* observers used when the device classes or a fixed script are exercised
    arg,                 \* argument of the latest direct call of a set method (0 if none)
    script_pos,          \* number of frames of the script processed so far
    log,                 \* everything the frames of the script did, in order
    \* the classifier exercised alone
    hand,                \* the landmarks given to detect_gesture
    label,               \* what detect_gesture returned ("None" before the call)
    \* the serial client's object and its two threads, statement by statement
    running,             \* ArduinoController.running
    is_open,             \* serial_conn.is_open (serial_conn is not None)
    reader_pc,           \* where the _monitor_responses thread stands
    main_pc,             \* where the main thread stands
    buffer,              \* _monitor_responses: buffer
    pending,             \* assignments _process_response has still to make for its line
    sending,             \* the line a controller method has chosen and not yet written
    ret,                 \* what the latest direct call of send_command returned
    \* the peer's bytes, when the reader's reassembly of lines is exercised
    inbound,             \* [bytes: what the peer has sent, pos: how many of them were read]
    \* the testing program's detector (gesture_testing.py)
    gesture_counts,      \* HandGestureDetector.gesture_counts
    gesture_duration,    \* HandGestureDetector.gesture_duration
    runs_done            \* observer: runs of one label that have ended since the latest reset

vars == << variant, mode, led_on, led_level, motor_on, motor_level,
           last_gesture, gesture_start_time, now, gesture, connected, serial_ok,
           reader_alive, actor, frame_time, fired, out, ended_after,
           last_fire, run_start, run_fresh, run_fires, arg, script_pos, log,
           hand, label, running, is_open, reader_pc, main_pc, buffer, pending,
           sending, ret, inbound, gesture_counts, gesture_duration, runs_done >>

\* the observers that only the device and script specifications move
aux == << arg, script_pos, log >>

\* the variables that only the classifier and thread specifications move
more == << hand, label, running, is_open, reader_pc, main_pc, buffer, pending, sending, ret,
           inbound, gesture_counts, gesture_duration, runs_done >>

\* the variables that only the testing program moves
stats == << gesture_counts, gesture_duration, runs_done >>

-----------------------------------------------------------------------------
(* Bounds and program constants *)

\* The clock counts whole seconds.
MaxTime == 5                 \* the clock runs from 0 to MaxTime
MaxDelta == 2                \* largest clock advance between two frames
MaxJitter == 1               \* largest clock advance between the two reads of a firing frame
HOLD_DURATION == 2           \* HOLD_DURATION = 2.0 (seconds)
NoTime == -1                 \* gesture_start_time = None

None == "None"
Gestures == {"ONE", "TWO", "OPEN", "CLOSED", "THUMBS_UP", "THUMBS_DOWN", "UNKNOWN"}
Thumbs == {"THUMBS_UP", "THUMBS_DOWN"}
Frames == Gestures \cup {None}          \* process_frame: a gesture, or None when no hand

Min(a, b) == IF a < b THEN a ELSE b
Max(a, b) == IF a > b THEN a ELSE b

\* call(st, name, f): the loop state after a device method, whose result on
\* the fields is f, was called from state st; the call is recorded in out.
call(st, name, f) == [f EXCEPT !.out = Append(st.out, name)]

-----------------------------------------------------------------------------
(* DeviceController (hardware).  self is the record of the object's fields.
   PWM duty cycles are not state of the interaction model; the 0.1 s sleeps of
   the servo stop are covered by the clock advance between two reads. *)

\* Mutation of DeviceController_set_led_brightness: the level is stored as given.
DeviceController_set_led_brightness_unclamped(self, level) ==
    [self EXCEPT !.led_level = level]

DeviceController_set_led_brightness(self, level) ==
    [self EXCEPT !.led_level = Max(0, Min(5, level))]

DeviceController_set_servo_speed(self, level) ==
    [self EXCEPT !.motor_level = Max(0, Min(5, level))]

DeviceController_led_turn_on(self) ==
    LET s1 == [self EXCEPT !.led_on = TRUE]
        s2 == IF s1.led_level = 0 THEN [s1 EXCEPT !.led_level = 3] ELSE s1
    IN  DeviceController_set_led_brightness(s2, s2.led_level)

\* Mutation of DeviceController_led_turn_off: the servo is switched off as well.
DeviceController_led_turn_off_both(self) ==
    [self EXCEPT !.led_on = FALSE, !.motor_on = FALSE]

DeviceController_led_turn_off(self) == [self EXCEPT !.led_on = FALSE]

DeviceController_motor_turn_on(self) ==
    LET s1 == [self EXCEPT !.motor_on = TRUE]
        s2 == IF s1.motor_level = 0 THEN [s1 EXCEPT !.motor_level = 3] ELSE s1
    IN  DeviceController_set_servo_speed(s2, s2.motor_level)

DeviceController_motor_turn_off(self) == [self EXCEPT !.motor_on = FALSE]

DeviceController_increase_led(self) ==
    IF self.led_on THEN DeviceController_set_led_brightness(self, self.led_level + 1) ELSE self

DeviceController_decrease_led(self) ==
    IF self.led_on THEN DeviceController_set_led_brightness(self, self.led_level - 1) ELSE self

\* Mutation of DeviceController_increase_motor: the motor_on test is dropped.
DeviceController_increase_motor_when_off(self) ==
    DeviceController_set_servo_speed(self, self.motor_level + 1)

DeviceController_increase_motor(self) ==
    IF self.motor_on THEN DeviceController_set_servo_speed(self, self.motor_level + 1) ELSE self

DeviceController_decrease_motor(self) ==
    IF self.motor_on THEN DeviceController_set_servo_speed(self, self.motor_level - 1) ELSE self

(* The loop body of gesture_control_system.py main(), "Handle gestures", one operator per branch. *)
(* st is the loop's state, g the frame's gesture, t the first clock read and   *)
(* t2 the second clock read (made only by a firing frame).                     *)

system_handle_one(st) ==
    IF st.mode # "LED"
    THEN [st EXCEPT !.mode = "LED", !.out = Append(st.out, "mode=LED")]
    ELSE st

system_handle_two(st) ==
    IF st.mode # "MOTOR"
    THEN [st EXCEPT !.mode = "MOTOR", !.out = Append(st.out, "mode=MOTOR")]
    ELSE st

\* Mutation of system_handle_open: the device is turned on whether or not it is on.
system_handle_open_unguarded(st) ==
    IF st.mode = "LED"
        THEN call(st, "led_turn_on", DeviceController_led_turn_on(st))
    ELSE IF st.mode = "MOTOR"
        THEN call(st, "motor_turn_on", DeviceController_motor_turn_on(st))
    ELSE st

system_handle_open(st) ==
    IF st.mode = "LED" /\ ~st.led_on
        THEN call(st, "led_turn_on", DeviceController_led_turn_on(st))
    ELSE IF st.mode = "MOTOR" /\ ~st.motor_on
        THEN call(st, "motor_turn_on", DeviceController_motor_turn_on(st))
    ELSE st

system_handle_closed(st) ==
    IF st.mode = "LED" /\ st.led_on
        THEN call(st, "led_turn_off", DeviceController_led_turn_off(st))
    ELSE IF st.mode = "MOTOR" /\ st.motor_on
        THEN call(st, "motor_turn_off", DeviceController_motor_turn_off(st))
    ELSE st

\* Mutation of system_handle_thumbs: a new gesture keeps a start time already set.
system_handle_thumbs_keep_start(st, g, t, t2) ==
    IF g # st.last_gesture THEN
        [st EXCEPT !.last_gesture = g,
                   !.gesture_start_time = IF st.gesture_start_time = NoTime THEN t
                                          ELSE st.gesture_start_time]
    ELSE
        LET elapsed == t - st.gesture_start_time IN
        IF elapsed >= HOLD_DURATION THEN
            LET s1 == IF g = "THUMBS_UP" THEN
                          IF st.mode = "LED"
                          THEN call(st, "increase_led", DeviceController_increase_led(st))
                          ELSE call(st, "increase_motor", DeviceController_increase_motor(st))
                      ELSE
                          IF st.mode = "LED"
                          THEN call(st, "decrease_led", DeviceController_decrease_led(st))
                          ELSE call(st, "decrease_motor", DeviceController_decrease_motor(st))
            IN  [s1 EXCEPT !.gesture_start_time = t2, !.fired = TRUE]
        ELSE st

system_handle_thumbs(st, g, t, t2) ==
    IF g # st.last_gesture THEN
        [st EXCEPT !.last_gesture = g, !.gesture_start_time = t]
    ELSE
        LET elapsed == t - st.gesture_start_time IN
        IF elapsed >= HOLD_DURATION THEN
            LET s1 == IF g = "THUMBS_UP" THEN
                          IF st.mode = "LED"
                          THEN call(st, "increase_led", DeviceController_increase_led(st))
                          ELSE call(st, "increase_motor", DeviceController_increase_motor(st))
                      ELSE
                          IF st.mode = "LED"
                          THEN call(st, "decrease_led", DeviceController_decrease_led(st))
                          ELSE call(st, "decrease_motor", DeviceController_decrease_motor(st))
            IN  [s1 EXCEPT !.gesture_start_time = t2, !.fired = TRUE]
        ELSE st

\* Mutation of system_reset_timing: only the gesture is cleared.
system_reset_timing_keep_start(st) ==
    [st EXCEPT !.last_gesture = None]

system_reset_timing(st) ==
    [st EXCEPT !.last_gesture = None, !.gesture_start_time = NoTime]

system_main_step(st, g, t, t2) ==
    IF g # None THEN
        IF g = "ONE" THEN system_handle_one(st)
        ELSE IF g = "TWO" THEN system_handle_two(st)
        ELSE IF g = "OPEN" THEN system_handle_open(st)
        ELSE IF g = "CLOSED" THEN system_handle_closed(st)
        ELSE IF g \in {"THUMBS_UP", "THUMBS_DOWN"} THEN system_handle_thumbs(st, g, t, t2)
        ELSE system_reset_timing(st)
    ELSE system_reset_timing(st)

-----------------------------------------------------------------------------
(* DeviceSimulator (simulation).  self is the record of the object's fields. *)

\* Mutation of DeviceSimulator_set_led_brightness: the upper end is 4.
DeviceSimulator_set_led_brightness_below_five(self, level) ==
    [self EXCEPT !.led_level = Max(0, Min(4, level))]

DeviceSimulator_set_led_brightness(self, level) ==
    [self EXCEPT !.led_level = Max(0, Min(5, level))]

\* Mutation of DeviceSimulator_set_servo_speed: only the upper end is clamped.
DeviceSimulator_set_servo_speed_no_floor(self, level) ==
    [self EXCEPT !.motor_level = Min(5, level)]

DeviceSimulator_set_servo_speed(self, level) ==
    [self EXCEPT !.motor_level = Max(0, Min(5, level))]

DeviceSimulator_led_turn_on(self) ==
    LET s1 == [self EXCEPT !.led_on = TRUE]
        s2 == IF s1.led_level = 0 THEN [s1 EXCEPT !.led_level = 3] ELSE s1
    IN  DeviceSimulator_set_led_brightness(s2, s2.led_level)

\* Mutation of DeviceSimulator_led_turn_off: the level is reset with the flag.
DeviceSimulator_led_turn_off_resets_level(self) ==
    [self EXCEPT !.led_on = FALSE, !.led_level = 0]

DeviceSimulator_led_turn_off(self) == [self EXCEPT !.led_on = FALSE]

\* Mutation of DeviceSimulator_motor_turn_on: the default is applied whatever the level.
DeviceSimulator_motor_turn_on_always_default(self) ==
    DeviceSimulator_set_servo_speed([self EXCEPT !.motor_on = TRUE, !.motor_level = 3], 3)

DeviceSimulator_motor_turn_on(self) ==
    LET s1 == [self EXCEPT !.motor_on = TRUE]
        s2 == IF s1.motor_level = 0 THEN [s1 EXCEPT !.motor_level = 3] ELSE s1
    IN  DeviceSimulator_set_servo_speed(s2, s2.motor_level)

DeviceSimulator_motor_turn_off(self) == [self EXCEPT !.motor_on = FALSE]

DeviceSimulator_increase_led(self) ==
    IF self.led_on THEN DeviceSimulator_set_led_brightness(self, self.led_level + 1) ELSE self

DeviceSimulator_decrease_led(self) ==
    IF self.led_on THEN DeviceSimulator_set_led_brightness(self, self.led_level - 1) ELSE self

DeviceSimulator_increase_motor(self) ==
    IF self.motor_on THEN DeviceSimulator_set_servo_speed(self, self.motor_level + 1) ELSE self

\* Mutation of DeviceSimulator_decrease_motor: the LED method's body was copied.
DeviceSimulator_decrease_motor_wrong_device(self) ==
    IF self.motor_on THEN DeviceSimulator_set_led_brightness(self, self.led_level - 1) ELSE self

DeviceSimulator_decrease_motor(self) ==
    IF self.motor_on THEN DeviceSimulator_set_servo_speed(self, self.motor_level - 1) ELSE self

(* The loop body of gesture_control_simulation.py main(), "Handle gestures", one operator per branch. *)
(* st is the loop's state, g the frame's gesture, t the first clock read and   *)
(* t2 the second clock read (made only by a firing frame).                     *)

\* Mutation of simulation_handle_one: the mode is assigned without the test.
simulation_handle_one_unguarded(st) ==
    [st EXCEPT !.mode = "LED", !.out = Append(st.out, "mode=LED")]

simulation_handle_one(st) ==
    IF st.mode # "LED"
    THEN [st EXCEPT !.mode = "LED", !.out = Append(st.out, "mode=LED")]
    ELSE st

\* Mutation of simulation_handle_two: the mode is assigned without the test.
simulation_handle_two_unguarded(st) ==
    [st EXCEPT !.mode = "MOTOR", !.out = Append(st.out, "mode=MOTOR")]

simulation_handle_two(st) ==
    IF st.mode # "MOTOR"
    THEN [st EXCEPT !.mode = "MOTOR", !.out = Append(st.out, "mode=MOTOR")]
    ELSE st

simulation_handle_open(st) ==
    IF st.mode = "LED" /\ ~st.led_on
        THEN call(st, "led_turn_on", DeviceSimulator_led_turn_on(st))
    ELSE IF st.mode = "MOTOR" /\ ~st.motor_on
        THEN call(st, "motor_turn_on", DeviceSimulator_motor_turn_on(st))
    ELSE st

simulation_handle_closed(st) ==
    IF st.mode = "LED" /\ st.led_on
        THEN call(st, "led_turn_off", DeviceSimulator_led_turn_off(st))
    ELSE IF st.mode = "MOTOR" /\ st.motor_on
        THEN call(st, "motor_turn_off", DeviceSimulator_motor_turn_off(st))
    ELSE st

\* Mutation of simulation_handle_thumbs: the timer is not restarted after a fire.
simulation_handle_thumbs_no_restart(st, g, t, t2) ==
    IF g # st.last_gesture THEN
        [st EXCEPT !.last_gesture = g, !.gesture_start_time = t]
    ELSE
        LET elapsed == t - st.gesture_start_time IN
        IF elapsed >= HOLD_DURATION THEN
            LET s1 == IF g = "THUMBS_UP" THEN
                          IF st.mode = "LED"
                          THEN call(st, "increase_led", DeviceSimulator_increase_led(st))
                          ELSE call(st, "increase_motor", DeviceSimulator_increase_motor(st))
                      ELSE
                          IF st.mode = "LED"
                          THEN call(st, "decrease_led", DeviceSimulator_decrease_led(st))
                          ELSE call(st, "decrease_motor", DeviceSimulator_decrease_motor(st))
            IN  [s1 EXCEPT !.fired = TRUE]
        ELSE st

simulation_handle_thumbs(st, g, t, t2) ==
    IF g # st.last_gesture THEN
        [st EXCEPT !.last_gesture = g, !.gesture_start_time = t]
    ELSE
        LET elapsed == t - st.gesture_start_time IN
        IF elapsed >= HOLD_DURATION THEN
            LET s1 == IF g = "THUMBS_UP" THEN
                          IF st.mode = "LED"
                          THEN call(st, "increase_led", DeviceSimulator_increase_led(st))
                          ELSE call(st, "increase_motor", DeviceSimulator_increase_motor(st))
                      ELSE
                          IF st.mode = "LED"
                          THEN call(st, "decrease_led", DeviceSimulator_decrease_led(st))
                          ELSE call(st, "decrease_motor", DeviceSimulator_decrease_motor(st))
            IN  [s1 EXCEPT !.gesture_start_time = t2, !.fired = TRUE]
        ELSE st

simulation_reset_timing(st) ==
    [st EXCEPT !.last_gesture = None, !.gesture_start_time = NoTime]

simulation_main_step(st, g, t, t2) ==
    IF g # None THEN
        IF g = "ONE" THEN simulation_handle_one(st)
        ELSE IF g = "TWO" THEN simulation_handle_two(st)
        ELSE IF g = "OPEN" THEN simulation_handle_open(st)
        ELSE IF g = "CLOSED" THEN simulation_handle_closed(st)
        ELSE IF g \in {"THUMBS_UP", "THUMBS_DOWN"} THEN simulation_handle_thumbs(st, g, t, t2)
        ELSE simulation_reset_timing(st)
    ELSE simulation_reset_timing(st)

-----------------------------------------------------------------------------
(* Python string operations used by the serial client, on TLA+ strings *)

\* Mutation of startswith: p is looked for anywhere in s.
startswith_anywhere(s, p) ==
    \E i \in 1..(Len(s) - Len(p) + 1) : SubSeq(s, i, i + Len(p) - 1) = p

startswith(s, p) == Len(s) >= Len(p) /\ SubSeq(s, 1, Len(p)) = p

\* sub in s
contains(s, sub) ==
    \E i \in 1..(Len(s) - Len(sub) + 1) : SubSeq(s, i, i + Len(sub) - 1) = sub

\* position of the first occurrence of the one-character string c in s, 0 if none
RECURSIVE find(_, _, _)
find(s, c, i) ==
    IF i > Len(s) THEN 0
    ELSE IF SubSeq(s, i, i) = c THEN i
    ELSE find(s, c, i + 1)

\* Mutation of split: s.split(c, 1), at most one split is made.
split_once(s, c) ==
    LET i == find(s, c, 1) IN
    IF i = 0 THEN << s >>
    ELSE << SubSeq(s, 1, i - 1), SubSeq(s, i + 1, Len(s)) >>

\* s.split(c): the sequence of the fields of s between occurrences of c
RECURSIVE split(_, _)
split(s, c) ==
    LET i == find(s, c, 1) IN
    IF i = 0 THEN << s >>
    ELSE << SubSeq(s, 1, i - 1) >> \o split(SubSeq(s, i + 1, Len(s)), c)

DigitValue(c) ==
    CASE c = "0" -> 0 [] c = "1" -> 1 [] c = "2" -> 2 [] c = "3" -> 3 [] c = "4" -> 4
      [] c = "5" -> 5 [] c = "6" -> 6 [] c = "7" -> 7 [] c = "8" -> 8 [] c = "9" -> 9
      [] OTHER -> -1

AllDigits(s) == Len(s) > 0 /\ \A i \in 1..Len(s) : DigitValue(SubSeq(s, i, i)) >= 0

\* int(s) succeeds: an optional sign and at least one decimal digit
\* (the lines are stripped before parsing; digit separators are not modelled)
IsInt(s) ==
    IF Len(s) > 0 /\ SubSeq(s, 1, 1) \in {"-", "+"}
    THEN AllDigits(SubSeq(s, 2, Len(s)))
    ELSE AllDigits(s)

RECURSIVE Digits(_)
Digits(s) ==
    IF Len(s) = 0 THEN 0
    ELSE 10 * Digits(SubSeq(s, 1, Len(s) - 1)) + DigitValue(SubSeq(s, Len(s), Len(s)))

\* int(s), for IsInt(s)
int(s) ==
    IF SubSeq(s, 1, 1) = "-" THEN 0 - Digits(SubSeq(s, 2, Len(s)))
    ELSE IF SubSeq(s, 1, 1) = "+" THEN Digits(SubSeq(s, 2, Len(s)))
    ELSE Digits(s)

-----------------------------------------------------------------------------
(* ArduinoController (serial client) *)

\* _process_response: the fields after the line, and whether int() raised
\* ValueError (the assignments made before the raise stay made).
Done(self) == [self |-> self, raised |-> FALSE]
Raise(self) == [self |-> self, raised |-> TRUE]

_process_response(self, line) ==
    IF startswith(line, "STATUS:") THEN
        LET parts == split(SubSeq(line, 8, Len(line)), ",") IN
        IF Len(parts) = 5 THEN
            LET s1 == [self EXCEPT !.mode = parts[1], !.led_on = (parts[2] = "ON")] IN
            IF ~IsInt(parts[3]) THEN Raise(s1)
            ELSE
                LET s2 == [s1 EXCEPT !.led_level = int(parts[3]),
                                     !.motor_on = (parts[4] = "ON")] IN
                IF ~IsInt(parts[5]) THEN Raise(s2)
                ELSE Done([s2 EXCEPT !.motor_level = int(parts[5])])
        ELSE Done(self)
    ELSE IF startswith(line, "MODE:") THEN
        Done([self EXCEPT !.mode = SubSeq(line, 6, Len(line))])
    ELSE IF startswith(line, "LED:") THEN
        IF contains(line, "ON") THEN Done([self EXCEPT !.led_on = TRUE])
        ELSE IF contains(line, "OFF") THEN Done([self EXCEPT !.led_on = FALSE])
        ELSE IF contains(line, "LEVEL:") THEN
            LET parts == split(line, ":") IN
            IF Len(parts) >= 3 THEN
                IF IsInt(parts[3]) THEN Done([self EXCEPT !.led_level = int(parts[3])])
                ELSE Raise(self)
            ELSE Done(self)
        ELSE Done(self)
    ELSE IF startswith(line, "MOTOR:") THEN
        IF contains(line, "ON") THEN Done([self EXCEPT !.motor_on = TRUE])
        ELSE IF contains(line, "OFF") THEN Done([self EXCEPT !.motor_on = FALSE])
        ELSE IF contains(line, "LEVEL:") THEN
            LET parts == split(line, ":") IN
            IF Len(parts) >= 3 THEN
                IF IsInt(parts[3]) THEN Done([self EXCEPT !.motor_level = int(parts[3])])
                ELSE Raise(self)
            ELSE Done(self)
        ELSE Done(self)
    ELSE Done(self)

\* send_command: the line is written when connected and the port still works;
\* a raising write is caught and nothing is written.  The line written is
\* recorded in self.out; the boolean result is dropped by every caller.
send_command(self, command) ==
    IF self.connected THEN
        IF self.serial_ok THEN [self EXCEPT !.out = Append(self.out, command \o "\n")]
        ELSE self
    ELSE self

\* Mutation of send_command_result: True is returned whenever connected.
send_command_result_when_connected(self, command) == self.connected

\* what send_command returns: True after write and flush, False when not
\* connected (or serial_conn is None) and when the write raised
send_command_result(self, command) ==
    IF self.connected THEN
        IF self.serial_ok THEN TRUE ELSE FALSE
    ELSE FALSE

set_mode(self, m) == send_command(self, "MODE:" \o m)

\* Mutation of turn_on: the device is also marked on locally.
turn_on_sets_local(self) ==
    IF self.mode = "LED" THEN [send_command(self, "LED:ON") EXCEPT !.led_on = TRUE]
    ELSE [send_command(self, "MOTOR:ON") EXCEPT !.motor_on = TRUE]

turn_on(self) ==
    IF self.mode = "LED" THEN send_command(self, "LED:ON")
    ELSE send_command(self, "MOTOR:ON")

turn_off(self) ==
    IF self.mode = "LED" THEN send_command(self, "LED:OFF")
    ELSE send_command(self, "MOTOR:OFF")

increase(self) ==
    IF self.mode = "LED" THEN send_command(self, "LED:UP")
    ELSE send_command(self, "MOTOR:UP")

decrease(self) ==
    IF self.mode = "LED" THEN send_command(self, "LED:DOWN")
    ELSE send_command(self, "MOTOR:DOWN")

(* The loop body of gesture_control_client_arduino.py main(), "Handle gestures" *)

client_handle_one(st) == IF st.mode # "LED" THEN set_mode(st, "LED") ELSE st

\* Mutation of client_handle_two: the device is turned on after the switch.
client_handle_two_and_on(st) ==
    IF st.mode # "MOTOR" THEN turn_on(set_mode(st, "MOTOR")) ELSE st

client_handle_two(st) == IF st.mode # "MOTOR" THEN set_mode(st, "MOTOR") ELSE st

client_handle_open(st) == turn_on(st)

client_handle_closed(st) == turn_off(st)

\* Mutation of client_handle_thumbs: the threshold is one second short.
client_handle_thumbs_early(st, g, t, t2) ==
    IF g # st.last_gesture THEN
        [st EXCEPT !.last_gesture = g, !.gesture_start_time = t]
    ELSE
        LET elapsed == t - st.gesture_start_time IN
        IF elapsed >= HOLD_DURATION - 1 THEN
            LET s1 == IF g = "THUMBS_UP" THEN increase(st) ELSE decrease(st)
            IN  [s1 EXCEPT !.gesture_start_time = t2, !.fired = TRUE]
        ELSE st

client_handle_thumbs(st, g, t, t2) ==
    IF g # st.last_gesture THEN
        [st EXCEPT !.last_gesture = g, !.gesture_start_time = t]
    ELSE
        LET elapsed == t - st.gesture_start_time IN
        IF elapsed >= HOLD_DURATION THEN
            LET s1 == IF g = "THUMBS_UP" THEN increase(st) ELSE decrease(st)
            IN  [s1 EXCEPT !.gesture_start_time = t2, !.fired = TRUE]
        ELSE st

\* Mutation of client_reset_timing: only the start time is cleared.
client_reset_timing_keep_gesture(st) ==
    [st EXCEPT !.gesture_start_time = NoTime]

client_reset_timing(st) ==
    [st EXCEPT !.last_gesture = None, !.gesture_start_time = NoTime]

client_main_step(st, g, t, t2) ==
    IF g # None THEN
        IF g = "ONE" THEN client_handle_one(st)
        ELSE IF g = "TWO" THEN client_handle_two(st)
        ELSE IF g = "OPEN" THEN client_handle_open(st)
        ELSE IF g = "CLOSED" THEN client_handle_closed(st)
        ELSE IF g \in {"THUMBS_UP", "THUMBS_DOWN"} THEN client_handle_thumbs(st, g, t, t2)
        ELSE client_reset_timing(st)
    ELSE client_reset_timing(st)

-----------------------------------------------------------------------------
(* State machine *)

\* Lines the peer may send (each arrives whole at the reader thread)
InboundLines ==
    { "STATUS:MOTOR,ON,4,OFF,0", "MODE:LED", "MODE:MOTOR",
      "LED:ON", "LED:OFF", "MOTOR:ON", "MOTOR:OFF", "GARBAGE:1,2,3" }

\* DeviceController.__init__ / DeviceSimulator.__init__ / ArduinoController.__init__
\* (followed by a successful connect()) and the control state set before the
\* loop of main()
ControlInit ==
    /\ variant \in {"hardware", "simulation", "serial"}
    /\ mode = "LED"
    /\ led_on = FALSE
    /\ motor_on = FALSE
    /\ led_level = IF variant = "serial" THEN 3 ELSE 0
    /\ motor_level = IF variant = "serial" THEN 3 ELSE 0
    /\ last_gesture = None
    /\ gesture_start_time = NoTime
    /\ now = 0
    /\ gesture = None
    /\ actor = "none"
    /\ frame_time = 0
    /\ fired = FALSE
    /\ out = << >>
    /\ ended_after = NoTime
    /\ last_fire = NoTime
    /\ run_start = NoTime
    /\ run_fresh = FALSE
    /\ run_fires = 0
    /\ arg = 0
    /\ script_pos = 0
    /\ log = << >>

\* connect() has returned True (serial client): the port is open, the reader
\* thread is started, nothing has been read
Connected ==
    /\ connected = (variant = "serial")
    /\ serial_ok = TRUE
    /\ reader_alive = (variant = "serial")
    /\ running = (variant = "serial")
    /\ is_open = (variant = "serial")
    /\ reader_pc = "while"
    /\ main_pc = "loop"
    /\ buffer = ""
    /\ pending = << >>
    /\ sending = << >>
    /\ ret = FALSE

\* detect_gesture has not been given a hand
ClassifierIdle == hand = << >> /\ label = None

NothingInbound == inbound = [bytes |-> << >>, pos |-> 0]

\* the statistics of the testing program's detector as __init__ sets them
NoStatistics ==
    /\ gesture_counts = [g \in Gestures |-> 0]
    /\ gesture_duration = 0
    /\ runs_done = 0

Init == ControlInit /\ Connected /\ ClassifierIdle /\ NothingInbound /\ NoStatistics

\* The loop's state at the top of an iteration
LoopState ==
    [ mode |-> mode, led_on |-> led_on, led_level |-> led_level,
      motor_on |-> motor_on, motor_level |-> motor_level,
      last_gesture |-> last_gesture, gesture_start_time |-> gesture_start_time,
      connected |-> connected, serial_ok |-> serial_ok,
      fired |-> FALSE, out |-> << >> ]

\* One loop iteration with result r for the frame (g, t); the observers are
\* brought up to date.
Commit(r, g, t, t2) ==
    /\ mode' = r.mode
    /\ led_on' = r.led_on
    /\ led_level' = r.led_level
    /\ motor_on' = r.motor_on
    /\ motor_level' = r.motor_level
    /\ last_gesture' = r.last_gesture
    /\ gesture_start_time' = r.gesture_start_time
    /\ now' = IF r.fired THEN t2 ELSE t
    /\ gesture' = g
    /\ actor' = "main"
    /\ frame_time' = t
    /\ fired' = r.fired
    /\ out' = r.out
    /\ LET same == r.last_gesture = last_gesture
           continues == g \in Thumbs /\ g = gesture /\ run_start # NoTime
           f == IF r.fired THEN 1 ELSE 0
       IN  /\ ended_after' = IF last_gesture # None /\ ~same
                             THEN t - gesture_start_time ELSE NoTime
           /\ last_fire' = IF ~same THEN NoTime
                           ELSE IF r.fired THEN t ELSE last_fire
           /\ run_start' = IF g \notin Thumbs THEN NoTime
                           ELSE IF continues THEN run_start ELSE t
           /\ run_fresh' = IF g \notin Thumbs THEN FALSE
                           ELSE IF continues THEN run_fresh ELSE (g # last_gesture)
           /\ run_fires' = IF g \notin Thumbs THEN 0
                           ELSE IF continues THEN run_fires + f ELSE f
    /\ UNCHANGED << variant, connected, serial_ok, reader_alive >>

HardwareFrame(g, dt, j) ==
    /\ variant = "hardware"
    /\ now + dt + j <= MaxTime
    /\ UNCHANGED << aux, more >>
    /\ LET t == now + dt
       IN  \E r \in { system_main_step(LoopState, g, t, t + j) } : Commit(r, g, t, t + j)

SimulationFrame(g, dt, j) ==
    /\ variant = "simulation"
    /\ now + dt + j <= MaxTime
    /\ UNCHANGED << aux, more >>
    /\ LET t == now + dt
       IN  \E r \in { simulation_main_step(LoopState, g, t, t + j) } : Commit(r, g, t, t + j)

SerialFrame(g, dt, j) ==
    /\ variant = "serial"
    /\ now + dt + j <= MaxTime
    /\ UNCHANGED << aux, more >>
    /\ LET t == now + dt
       IN  \E r \in { client_main_step(LoopState, g, t, t + j) } : Commit(r, g, t, t + j)

\* A step that is no loop iteration: the observers of the latest iteration
\* are cleared.
NotAFrame(who) ==
    /\ actor' = who
    /\ frame_time' = now
    /\ fired' = FALSE
    /\ out' = << >>
    /\ ended_after' = NoTime

\* _monitor_responses: the reader thread takes one complete line and applies
\* it; an exception inside the try block ends the thread (except: break).
ApplyLine(line) ==
    /\ variant = "serial"
    /\ reader_alive
    /\ serial_ok
    /\ LET self == [ mode |-> mode, led_on |-> led_on, led_level |-> led_level,
                     motor_on |-> motor_on, motor_level |-> motor_level ]
       IN  \E r \in { _process_response(self, line) } :
           /\ mode' = r.self.mode
           /\ led_on' = r.self.led_on
           /\ led_level' = r.self.led_level
           /\ motor_on' = r.self.motor_on
           /\ motor_level' = r.self.motor_level
           /\ reader_alive' = ~r.raised
    /\ NotAFrame("reader")
    /\ UNCHANGED << variant, last_gesture, gesture_start_time, now, gesture, connected,
                    serial_ok, last_fire, run_start, run_fresh, run_fires >>

MonitorResponses(line) == ApplyLine(line) /\ UNCHANGED << aux, more >>

\* _monitor_responses on a port that no longer works: in_waiting raises and
\* the thread leaves its loop.
MonitorResponsesFails ==
    /\ variant = "serial"
    /\ reader_alive
    /\ ~serial_ok
    /\ reader_alive' = FALSE
    /\ NotAFrame("reader")
    /\ UNCHANGED << aux, more >>
    /\ UNCHANGED << variant, mode, led_on, led_level, motor_on, motor_level,
                    last_gesture, gesture_start_time, now, gesture, connected,
                    serial_ok, last_fire, run_start, run_fresh, run_fires >>

\* Environment: the serial port stops working (cable pulled); from then on
\* every write and every in_waiting raises.
SerialFailure ==
    /\ variant = "serial"
    /\ serial_ok
    /\ serial_ok' = FALSE
    /\ NotAFrame("env")
    /\ UNCHANGED << aux, more >>
    /\ UNCHANGED << variant, mode, led_on, led_level, motor_on, motor_level,
                    last_gesture, gesture_start_time, now, gesture, connected,
                    reader_alive, last_fire, run_start, run_fresh, run_fires >>

\* The inputs of one loop iteration: the frame's gesture, the clock advance
\* since the previous read, and the advance between the two reads of a firing
\* iteration (no second read happens otherwise).
Fires(g, dt) ==
    g \in Thumbs /\ g = last_gesture /\ (now + dt) - gesture_start_time >= HOLD_DURATION

Jitters(g, dt) == IF Fires(g, dt) THEN 0..MaxJitter ELSE {0}

Next ==
    \/ \E g \in Frames, dt \in 0..MaxDelta : \E j \in Jitters(g, dt) :
           HardwareFrame(g, dt, j)
    \/ \E g \in Frames, dt \in 0..MaxDelta : \E j \in Jitters(g, dt) :
           SimulationFrame(g, dt, j)
    \/ \E g \in Frames, dt \in 0..MaxDelta : \E j \in Jitters(g, dt) :
           SerialFrame(g, dt, j)
    \/ \E line \in InboundLines : MonitorResponses(line)
    \/ MonitorResponsesFails
    \/ SerialFailure

Spec == Init /\ [][Next]_vars

-----------------------------------------------------------------------------
(* Properties *)

Local == {"hardware", "simulation"}

LevelCalls == {"increase_led", "increase_motor", "decrease_led", "decrease_motor"}
LevelCommands == {"LED:UP\n", "LED:DOWN\n", "MOTOR:UP\n", "MOTOR:DOWN\n"}

\* The latest loop iteration was a repeat-fire event: it took the firing
\* branch, called a level method or wrote a level command.
RepeatFire ==
    \/ fired
    \/ \E i \in 1..Len(out) : out[i] \in LevelCalls \cup LevelCommands

\* C1: every frame whose gesture differs from the hold session's gesture
\* (One, Two, Open, Closed, Unknown, no hand) leaves the hold session empty,
\* a thumb gesture leaves a session of that gesture, and a repeat-fire never
\* counts time from before the current uninterrupted run of the gesture.
C1_HoldResetOnEveryChange ==
    /\ gesture \notin Thumbs => last_gesture = None /\ gesture_start_time = NoTime
    /\ gesture \in Thumbs => last_gesture = gesture
    /\ (actor = "main" /\ RepeatFire) =>
           run_start # NoTime /\ frame_time - run_start >= HOLD_DURATION

\* C2 as claimed: ThumbsUp on every frame since the frame that created the
\* hold at t0; a frame at t0 + HOLD_DURATION sees exactly one fire, a frame at
\* t0 + 2*HOLD_DURATION exactly two, whatever the frame times in between.
C2_ExactlyTwoAtTwiceHold ==
    (actor = "main" /\ gesture = "THUMBS_UP" /\ run_fresh) =>
        /\ frame_time - run_start = HOLD_DURATION => run_fires = 1
        /\ frame_time - run_start = 2 * HOLD_DURATION => run_fires = 2

\* C2 (amended): ThumbsUp on every frame since the frame that created the
\* hold at t0; a frame at t0 + HOLD_DURATION sees exactly one fire, a frame at
\* t0 + 2*HOLD_DURATION sees one or two fires, never none and never three.
C2_HoldFireCount ==
    (actor = "main" /\ gesture = "THUMBS_UP" /\ run_fresh) =>
        /\ frame_time - run_start = HOLD_DURATION => run_fires = 1
        /\ frame_time - run_start = 2 * HOLD_DURATION => run_fires \in {1, 2}

C2_Witness ==
    /\ actor = "main" /\ gesture = "THUMBS_UP" /\ run_fresh
    /\ frame_time - run_start = 2 * HOLD_DURATION
    /\ run_fires = 2

\* C3: a repeat-fire happens only on a frame whose gesture is the hold
\* session's gesture and at least HOLD_DURATION after the session's
\* start_time; the frame that creates a session never fires; two consecutive
\* fires of one session are at least HOLD_DURATION apart.
C3_FireOnlyAfterHold ==
    [][ /\ (actor' = "main" /\ RepeatFire') =>
               /\ gesture' \in Thumbs
               /\ gesture' = last_gesture
               /\ gesture_start_time # NoTime
               /\ frame_time' - gesture_start_time >= HOLD_DURATION
               /\ last_fire # NoTime => frame_time' - last_fire >= HOLD_DURATION
        /\ (actor' = "main" /\ gesture' \in Thumbs /\ gesture' # last_gesture) =>
               ~RepeatFire'
      ]_vars

C3_Witness ==
    /\ actor = "main" /\ fired /\ out # << >>
    /\ run_fires = 2
    /\ last_fire = frame_time

\* C4: a frame of the other thumb gesture restarts the session with the new
\* gesture at the current time and fires nothing, however old the session.
C4_SwitchRestartsWithoutFire ==
    [][ (actor' = "main" /\ last_gesture \in Thumbs /\ gesture' \in Thumbs
            /\ gesture' # last_gesture) =>
            /\ last_gesture' = gesture'
            /\ gesture_start_time' = frame_time'
            /\ now' = frame_time'
            /\ ~RepeatFire'
            /\ out' = << >>
            /\ UNCHANGED << mode, led_on, led_level, motor_on, motor_level >>
      ]_vars

C4_Witness ==
    /\ actor = "main" /\ gesture = "THUMBS_DOWN" /\ last_gesture = "THUMBS_DOWN"
    /\ ended_after >= HOLD_DURATION
    /\ gesture_start_time = frame_time

\* C5: a repeat-fire calls increase for ThumbsUp and decrease for ThumbsDown
\* on the device the mode selects (LED in mode LED, motor in mode MOTOR),
\* with the method's effect on that device only, and restarts the session's
\* start_time at the current time, the session's gesture kept.
Clamp(n) == IF n < 0 THEN 0 ELSE IF n > 5 THEN 5 ELSE n
Step(g) == IF g = "THUMBS_UP" THEN 1 ELSE -1
C5_FireActsOnActiveDevice ==
    [][ (actor' = "main" /\ fired') =>
            /\ last_gesture' = last_gesture
            /\ gesture_start_time' = now'
            /\ now' >= frame_time'
            /\ mode' = mode
            /\ (variant \in Local /\ mode = "LED") =>
                   /\ out' = << IF gesture' = "THUMBS_UP" THEN "increase_led"
                                ELSE "decrease_led" >>
                   /\ led_level' = IF led_on THEN Clamp(led_level + Step(gesture'))
                                   ELSE led_level
                   /\ UNCHANGED << led_on, motor_on, motor_level >>
            /\ (variant \in Local /\ mode = "MOTOR") =>
                   /\ out' = << IF gesture' = "THUMBS_UP" THEN "increase_motor"
                                ELSE "decrease_motor" >>
                   /\ motor_level' = IF motor_on THEN Clamp(motor_level + Step(gesture'))
                                     ELSE motor_level
                   /\ UNCHANGED << motor_on, led_on, led_level >>
            /\ (variant = "serial" /\ serial_ok /\ mode = "LED") =>
                   out' = << IF gesture' = "THUMBS_UP" THEN "LED:UP\n" ELSE "LED:DOWN\n" >>
            /\ (variant = "serial" /\ serial_ok /\ mode = "MOTOR") =>
                   out' = << IF gesture' = "THUMBS_UP" THEN "MOTOR:UP\n"
                             ELSE "MOTOR:DOWN\n" >>
      ]_vars

C5_Witness ==
    /\ actor = "main" /\ fired /\ variant = "hardware" /\ mode = "MOTOR"
    /\ gesture = "THUMBS_DOWN" /\ out = << "decrease_motor" >>
    /\ motor_on /\ motor_level = 2 /\ ~led_on
    /\ gesture_start_time > frame_time

\* C6: a frame with no hand or with gesture Unknown empties the hold session,
\* calls and writes nothing, and leaves mode and both devices as they were.
C6_NoHandOrUnknownResets ==
    [][ (actor' = "main" /\ gesture' \in {None, "UNKNOWN"}) =>
            /\ last_gesture' = None
            /\ gesture_start_time' = NoTime
            /\ out' = << >>
            /\ ~fired'
            /\ UNCHANGED << mode, led_on, led_level, motor_on, motor_level >>
      ]_vars

C6_Witness ==
    /\ actor = "main" /\ gesture = "UNKNOWN" /\ last_gesture = None
    /\ ended_after >= 1
    /\ led_on /\ mode = "MOTOR"

\* C7: in the hardware and simulation variants a One frame sets mode to LED
\* and a Two frame sets mode to MOTOR; a frame whose mode is already set
\* changes nothing; the devices are never changed by these frames; mode is
\* always LED or MOTOR and is LED initially.
C7_ModeSwitch ==
    /\ mode = "LED"
    /\ [](variant \in Local => mode \in {"LED", "MOTOR"})
    /\ [][ /\ (variant \in Local /\ actor' = "main" /\ gesture' = "ONE") =>
                  /\ mode' = "LED"
                  /\ out' = IF mode = "LED" THEN << >> ELSE << "mode=LED" >>
                  /\ UNCHANGED << led_on, led_level, motor_on, motor_level,
                                  last_gesture, gesture_start_time >>
           /\ (variant \in Local /\ actor' = "main" /\ gesture' = "TWO") =>
                  /\ mode' = "MOTOR"
                  /\ out' = IF mode = "MOTOR" THEN << >> ELSE << "mode=MOTOR" >>
                  /\ UNCHANGED << led_on, led_level, motor_on, motor_level,
                                  last_gesture, gesture_start_time >>
         ]_vars

C7_Witness ==
    /\ variant = "simulation" /\ actor = "main" /\ gesture = "TWO"
    /\ mode = "MOTOR" /\ out = << "mode=MOTOR" >>
    /\ led_on /\ led_level = 3

\* C8: in the serial client a One frame leaves the local mode LED and a Two
\* frame leaves it MOTOR in that same iteration, and a frame that repeats the
\* previous frame's One or Two writes no MODE command.
C8_ClientModeSetLocally ==
    [][ /\ (variant = "serial" /\ actor' = "main" /\ gesture' = "ONE") =>
               /\ mode' = "LED"
               /\ (actor = "main" /\ gesture = "ONE") => out' = << >>
        /\ (variant = "serial" /\ actor' = "main" /\ gesture' = "TWO") =>
               /\ mode' = "MOTOR"
               /\ (actor = "main" /\ gesture = "TWO") => out' = << >>
      ]_vars

\* C9: in the hardware and simulation variants an Open frame turns the active
\* device on exactly when it is off and a Closed frame turns it off exactly
\* when it is on; otherwise the frame changes nothing; a frame that repeats
\* the previous frame's Open or Closed never acts.
ActiveOn == IF mode = "LED" THEN led_on ELSE motor_on
C9_OpenClosedEdgeTriggered ==
    [][ /\ (variant \in Local /\ actor' = "main" /\ gesture' = "OPEN") =>
               /\ out' = IF ActiveOn THEN << >>
                         ELSE IF mode = "LED" THEN << "led_turn_on" >>
                         ELSE << "motor_turn_on" >>
               /\ ActiveOn'
               /\ ActiveOn => UNCHANGED << led_on, led_level, motor_on, motor_level >>
               /\ mode = "LED" => UNCHANGED << motor_on, motor_level >>
               /\ mode = "MOTOR" => UNCHANGED << led_on, led_level >>
               /\ UNCHANGED << mode, last_gesture, gesture_start_time >>
               /\ gesture = "OPEN" => out' = << >>
        /\ (variant \in Local /\ actor' = "main" /\ gesture' = "CLOSED") =>
               /\ out' = IF ~ActiveOn THEN << >>
                         ELSE IF mode = "LED" THEN << "led_turn_off" >>
                         ELSE << "motor_turn_off" >>
               /\ ~ActiveOn'
               /\ UNCHANGED << led_level, motor_level >>
               /\ mode = "LED" => UNCHANGED motor_on
               /\ mode = "MOTOR" => UNCHANGED led_on
               /\ UNCHANGED << mode, last_gesture, gesture_start_time >>
               /\ gesture = "CLOSED" => out' = << >>
      ]_vars

C9_Witness ==
    /\ variant = "hardware" /\ actor = "main" /\ gesture = "CLOSED"
    /\ mode = "MOTOR" /\ out = << "motor_turn_off" >>
    /\ ~motor_on /\ motor_level = 3

\* C10: in the serial client an Open frame writes an ON command only when the
\* locally tracked active device is off, and a Closed frame writes an OFF
\* command only when it is on.
C10_ClientOpenClosedEdgeTriggered ==
    [][ /\ (variant = "serial" /\ actor' = "main" /\ gesture' = "OPEN" /\ ActiveOn) =>
               out' = << >>
        /\ (variant = "serial" /\ actor' = "main" /\ gesture' = "CLOSED" /\ ~ActiveOn) =>
               out' = << >>
      ]_vars

-----------------------------------------------------------------------------
(* The device classes alone: DeviceController and DeviceSimulator driven by  *)
(* any sequence of calls of their methods, with any argument.                *)

\* arguments given to set_led_brightness / set_servo_speed
LevelArgs == {-5, -1, 0, 1, 3, 5, 6, 99}

DeviceInit == Init /\ variant \in {"hardware", "simulation"}

\* the fields of the controller / simulator object
DeviceFields ==
    [ led_on |-> led_on, led_level |-> led_level,
      motor_on |-> motor_on, motor_level |-> motor_level ]

\* A direct call of the method name leaves the object with fields r; n is the
\* argument of the latest call of a set method, and the names of the latest
\* two calls are kept in log.
DeviceCall(name, n, r) ==
    /\ variant \in {"hardware", "simulation"}
    /\ led_on' = r.led_on
    /\ led_level' = r.led_level
    /\ motor_on' = r.motor_on
    /\ motor_level' = r.motor_level
    /\ actor' = name
    /\ arg' = n
    /\ log' = IF log = << >> THEN << name >> ELSE << log[Len(log)], name >>
    /\ UNCHANGED << variant, mode, last_gesture, gesture_start_time, now, gesture,
                    connected, serial_ok, reader_alive, frame_time, fired, out,
                    ended_after, last_fire, run_start, run_fresh, run_fires, script_pos,
                    more >>

set_led_brightness(n) ==
    DeviceCall("set_led_brightness", n,
               IF variant = "hardware" THEN DeviceController_set_led_brightness(DeviceFields, n)
               ELSE DeviceSimulator_set_led_brightness(DeviceFields, n))

set_servo_speed(n) ==
    DeviceCall("set_servo_speed", n,
               IF variant = "hardware" THEN DeviceController_set_servo_speed(DeviceFields, n)
               ELSE DeviceSimulator_set_servo_speed(DeviceFields, n))

led_turn_on ==
    DeviceCall("led_turn_on", arg,
               IF variant = "hardware" THEN DeviceController_led_turn_on(DeviceFields)
               ELSE DeviceSimulator_led_turn_on(DeviceFields))

led_turn_off ==
    DeviceCall("led_turn_off", arg,
               IF variant = "hardware" THEN DeviceController_led_turn_off(DeviceFields)
               ELSE DeviceSimulator_led_turn_off(DeviceFields))

motor_turn_on ==
    DeviceCall("motor_turn_on", arg,
               IF variant = "hardware" THEN DeviceController_motor_turn_on(DeviceFields)
               ELSE DeviceSimulator_motor_turn_on(DeviceFields))

motor_turn_off ==
    DeviceCall("motor_turn_off", arg,
               IF variant = "hardware" THEN DeviceController_motor_turn_off(DeviceFields)
               ELSE DeviceSimulator_motor_turn_off(DeviceFields))

increase_led ==
    DeviceCall("increase_led", arg,
               IF variant = "hardware" THEN DeviceController_increase_led(DeviceFields)
               ELSE DeviceSimulator_increase_led(DeviceFields))

decrease_led ==
    DeviceCall("decrease_led", arg,
               IF variant = "hardware" THEN DeviceController_decrease_led(DeviceFields)
               ELSE DeviceSimulator_decrease_led(DeviceFields))

increase_motor ==
    DeviceCall("increase_motor", arg,
               IF variant = "hardware" THEN DeviceController_increase_motor(DeviceFields)
               ELSE DeviceSimulator_increase_motor(DeviceFields))

decrease_motor ==
    DeviceCall("decrease_motor", arg,
               IF variant = "hardware" THEN DeviceController_decrease_motor(DeviceFields)
               ELSE DeviceSimulator_decrease_motor(DeviceFields))

DeviceNext ==
    \/ \E n \in LevelArgs : set_led_brightness(n)
    \/ \E n \in LevelArgs : set_servo_speed(n)
    \/ led_turn_on
    \/ led_turn_off
    \/ motor_turn_on
    \/ motor_turn_off
    \/ increase_led
    \/ decrease_led
    \/ increase_motor
    \/ decrease_motor

DeviceSpec == DeviceInit /\ [][DeviceNext]_vars

\* the object after led_turn_on / led_turn_off / ... was called on fields self
TurnOn(self, dev) ==
    IF variant = "hardware"
    THEN IF dev = "LED" THEN DeviceController_led_turn_on(self)
                        ELSE DeviceController_motor_turn_on(self)
    ELSE IF dev = "LED" THEN DeviceSimulator_led_turn_on(self)
                        ELSE DeviceSimulator_motor_turn_on(self)

TurnOff(self, dev) ==
    IF variant = "hardware"
    THEN IF dev = "LED" THEN DeviceController_led_turn_off(self)
                        ELSE DeviceController_motor_turn_off(self)
    ELSE IF dev = "LED" THEN DeviceSimulator_led_turn_off(self)
                        ELSE DeviceSimulator_motor_turn_off(self)

SetLevel(self, dev, n) ==
    IF variant = "hardware"
    THEN IF dev = "LED" THEN DeviceController_set_led_brightness(self, n)
                        ELSE DeviceController_set_servo_speed(self, n)
    ELSE IF dev = "LED" THEN DeviceSimulator_set_led_brightness(self, n)
                        ELSE DeviceSimulator_set_servo_speed(self, n)

\* C13: turnOn leaves the device on, with level 3 when the stored level was 0
\* and with the stored level otherwise; setLevel(0) followed by turnOn yields
\* level 3; after any turnOn the level is in 1..5.
C13_TurnOnDefaultLevel ==
    /\ [][ /\ actor' = "led_turn_on" =>
                  /\ led_on'
                  /\ led_level' = (IF led_level = 0 THEN 3 ELSE led_level)
                  /\ led_level' \in 1..5
                  /\ UNCHANGED << motor_on, motor_level >>
           /\ actor' = "motor_turn_on" =>
                  /\ motor_on'
                  /\ motor_level' = (IF motor_level = 0 THEN 3 ELSE motor_level)
                  /\ motor_level' \in 1..5
                  /\ UNCHANGED << led_on, led_level >> ]_vars
    /\ [](\A dev \in {"LED", "MOTOR"} :
              LET r == TurnOn(SetLevel(DeviceFields, dev, 0), dev)
              IN  IF dev = "LED" THEN r.led_on /\ r.led_level = 3
                                 ELSE r.motor_on /\ r.motor_level = 3)

\* set_servo_speed(0), then motor_turn_on, on an object whose LED is at 5
C13_Witness ==
    /\ log = << "set_servo_speed", "motor_turn_on" >> /\ arg = 0
    /\ motor_on /\ motor_level = 3 /\ led_level = 5

\* C14: turnOn is idempotent: called on a device that is already on (also on
\* with level 0), it leaves both on and level unchanged.
C14_TurnOnIdempotent ==
    [][ /\ (actor' = "led_turn_on" /\ led_on) =>
               led_on' /\ led_level' = led_level
        /\ (actor' = "motor_turn_on" /\ motor_on) =>
               motor_on' /\ motor_level' = motor_level ]_vars

\* C15: turnOff sets on to false and leaves the stored level unchanged;
\* turnOff followed by turnOn restores the same level when it is in 1..5.
C15_TurnOffKeepsLevel ==
    /\ [][ /\ actor' = "led_turn_off" =>
                  ~led_on' /\ led_level' = led_level /\ UNCHANGED << motor_on, motor_level >>
           /\ actor' = "motor_turn_off" =>
                  ~motor_on' /\ motor_level' = motor_level /\ UNCHANGED << led_on, led_level >>
           /\ (log' = << "led_turn_off", "led_turn_on" >> /\ led_level \in 1..5) =>
                  led_on' /\ led_level' = led_level
           /\ (log' = << "motor_turn_off", "motor_turn_on" >> /\ motor_level \in 1..5) =>
                  motor_on' /\ motor_level' = motor_level ]_vars
    /\ [](\A dev \in {"LED", "MOTOR"} :
              LET r == TurnOn(TurnOff(DeviceFields, dev), dev)
              IN  IF dev = "LED" THEN led_level \in 1..5 => r.led_on /\ r.led_level = led_level
                  ELSE motor_level \in 1..5 => r.motor_on /\ r.motor_level = motor_level)

\* a lit LED at level 4 was turned off and on again
C15_Witness ==
    log = << "led_turn_off", "led_turn_on" >> /\ led_on /\ led_level = 4

\* C16: increase and decrease leave on and level unchanged when the device is
\* off; when it is on they set level to min(5, level+1) / max(0, level-1) and
\* leave on unchanged.
C16_IncreaseDecrease ==
    [][ /\ actor' \in {"increase_led", "decrease_led"} =>
               /\ led_on' = led_on
               /\ led_level' = IF ~led_on THEN led_level
                               ELSE IF actor' = "increase_led"
                                    THEN (IF led_level + 1 > 5 THEN 5 ELSE led_level + 1)
                                    ELSE (IF led_level - 1 < 0 THEN 0 ELSE led_level - 1)
               /\ UNCHANGED << motor_on, motor_level >>
        /\ actor' \in {"increase_motor", "decrease_motor"} =>
               /\ motor_on' = motor_on
               /\ motor_level' = IF ~motor_on THEN motor_level
                                 ELSE IF actor' = "increase_motor"
                                      THEN (IF motor_level + 1 > 5 THEN 5 ELSE motor_level + 1)
                                      ELSE (IF motor_level - 1 < 0 THEN 0 ELSE motor_level - 1)
               /\ UNCHANGED << led_on, led_level >> ]_vars

\* decrease_led twice on a lit LED, the second time at level 0
C16_Witness ==
    log = << "decrease_led", "decrease_led" >> /\ led_on /\ led_level = 0

\* C18: setLevel(n) stores max(0, min(5, n)) for every integer n, whether the
\* device is on or off, and never changes the on flag.
C18_SetLevelClamps ==
    [][ /\ actor' = "set_led_brightness" =>
               /\ led_level' = Clamp(arg')
               /\ led_on' = led_on
               /\ UNCHANGED << motor_on, motor_level >>
        /\ actor' = "set_servo_speed" =>
               /\ motor_level' = Clamp(arg')
               /\ motor_on' = motor_on
               /\ UNCHANGED << led_on, led_level >> ]_vars

\* set_led_brightness(99) on an LED that is off
C18_Witness ==
    actor = "set_led_brightness" /\ arg = 99 /\ ~led_on /\ led_level = 5
-----------------------------------------------------------------------------
(* The hardware and simulation loops run without end.  The loops look at     *)
(* the clock only through t - gesture_start_time >= HOLD_DURATION, so the    *)
(* clock is kept within 0..MaxLiveTime by sliding its origin: once the       *)
(* latest read would pass MaxLiveTime, every time is moved back by the       *)
(* excess, and a start time that would fall before the origin stays at it    *)
(* (it is then at least HOLD_DURATION old, whatever its exact age).          *)

MaxLiveTime == 3             \* the sliding clock runs from 0 to MaxLiveTime

LiveInit == Init /\ variant \in {"hardware", "simulation"}

\* one iteration of the loop of the program chosen by variant (the record of
\* the calls made, out, is not kept here)
LiveFrame(g, dt, j) ==
    /\ variant \in {"hardware", "simulation"}
    /\ LET t == now + dt
           t2 == t + j
           r == IF variant = "hardware"
                THEN system_main_step(LoopState, g, t, t2)
                ELSE simulation_main_step(LoopState, g, t, t2)
           latest == IF r.fired THEN t2 ELSE t
           shift == Max(0, latest - MaxLiveTime)
       IN  /\ mode' = r.mode
           /\ led_on' = r.led_on
           /\ led_level' = r.led_level
           /\ motor_on' = r.motor_on
           /\ motor_level' = r.motor_level
           /\ last_gesture' = r.last_gesture
           /\ gesture_start_time' = IF r.gesture_start_time = NoTime THEN NoTime
                                    ELSE Max(0, r.gesture_start_time - shift)
           /\ now' = latest - shift
           /\ gesture' = g
           /\ actor' = "main"
           /\ fired' = r.fired
    /\ UNCHANGED << variant, connected, serial_ok, reader_alive, out, frame_time, ended_after,
                    last_fire, run_start, run_fresh, run_fires, aux, more >>

LiveNext ==
    \E g \in Frames, dt \in 0..MaxDelta : \E j \in Jitters(g, dt) : LiveFrame(g, dt, j)

\* a frame before which the clock has advanced
LaterFrame ==
    \E g \in Frames, dt \in 1..MaxDelta : \E j \in Jitters(g, dt) : LiveFrame(g, dt, j)

\* frames keep being processed and time keeps advancing
LiveSpec == LiveInit /\ [][LiveNext]_vars /\ WF_vars(LaterFrame)

ActiveLevel == IF mode = "LED" THEN led_level ELSE motor_level

\* C37: in the hardware and simulation programs, if from some point on every
\* frame has gesture ThumbsUp and the active device is on, then repeat-fires
\* occur again and again and the active device's level is eventually 5 for
\* ever; with ThumbsDown it is eventually 0 for ever, the device still on.
C37_HoldReachesLimit ==
    /\ (<>[](gesture = "THUMBS_UP" /\ ActiveOn))
           => ([]<><< fired' >>_vars /\ <>[](ActiveLevel = 5 /\ ActiveOn))
    /\ (<>[](gesture = "THUMBS_DOWN" /\ ActiveOn))
           => ([]<><< fired' >>_vars /\ <>[](ActiveLevel = 0 /\ ActiveOn))

\* the clock has slid, ThumbsUp has fired with the servo already at 5
C37_Witness ==
    /\ variant = "simulation" /\ actor = "main" /\ fired /\ gesture = "THUMBS_UP"
    /\ now = MaxLiveTime /\ gesture_start_time = MaxLiveTime
    /\ mode = "MOTOR" /\ motor_on /\ motor_level = 5
-----------------------------------------------------------------------------
(* The hardware and simulation loops alone, run long enough for a level to   *)
(* travel from its default to either end of its range and be pushed further. *)

MaxLoopTime == 8             \* the clock of this specification runs from 0 to MaxLoopTime

LoopInit == Init /\ variant \in {"hardware", "simulation"}

\* one iteration of the loop of the program chosen by variant
LocalFrame(g, dt, j) ==
    /\ variant \in {"hardware", "simulation"}
    /\ now + dt + j <= MaxLoopTime
    /\ UNCHANGED << aux, more >>
    /\ LET t == now + dt
       IN  \E r \in { IF variant = "hardware"
                      THEN system_main_step(LoopState, g, t, t + j)
                      ELSE simulation_main_step(LoopState, g, t, t + j) } :
               Commit(r, g, t, t + j)

LoopNext ==
    \E g \in Frames, dt \in 0..MaxDelta : \E j \in Jitters(g, dt) : LocalFrame(g, dt, j)

LoopSpec == LoopInit /\ [][LoopNext]_vars

\* C11: in the hardware and simulation programs led_level and motor_level are
\* integers in 0..5 in every state the frames can lead to.
C11_LevelsInRange ==
    variant \in Local => led_level \in 0..5 /\ motor_level \in 0..5

\* The LED was turned on at its default 3 and ThumbsDown has fired four
\* times: the fourth fire asked for a level below 0.
C11_Witness ==
    /\ variant \in Local /\ actor = "main" /\ fired
    /\ gesture = "THUMBS_DOWN" /\ run_fires = 4
    /\ mode = "LED" /\ led_on /\ led_level = 0

\* the tracked on and level of both devices
DeviceState == << led_on, led_level, motor_on, motor_level >>

\* C34: in the hardware and simulation programs a frame changes on and level
\* of no device other than the one selected by the mode at the start of the
\* frame, whatever the gesture (Open, Closed and repeat-fire included), and
\* the device state changes in no step other than a frame.
C34_OnlyActiveDeviceChanges ==
    [][ (variant \in Local) =>
            /\ (mode = "LED") => (motor_on' = motor_on /\ motor_level' = motor_level)
            /\ (mode = "MOTOR") => (led_on' = led_on /\ led_level' = led_level)
            /\ (DeviceState' # DeviceState) =>
                   /\ actor' = "main"
                   /\ gesture' \in {"OPEN", "CLOSED", "THUMBS_UP", "THUMBS_DOWN"}
      ]_vars

\* a repeat-fire has raised the servo's level while the LED is on at another
\* level
C34_Witness ==
    /\ variant = "hardware" /\ actor = "main" /\ fired /\ gesture = "THUMBS_UP"
    /\ mode = "MOTOR" /\ motor_on /\ motor_level = 4
    /\ led_on /\ led_level = 2
-----------------------------------------------------------------------------
(* The reader thread of the serial client alone, fed every kind of line. *)

\* Lines of every form of the inbound grammar, well formed and not
ReaderLines ==
    { "STATUS:MOTOR,ON,4,OFF,0", "STATUS:LED,OFF,9,ON,-1", "STATUS:FAN,on,2,ON,5",
      "STATUS:LED,ON,x,ON,1", "STATUS:MOTOR,ON,2,OFF,y",
      "STATUS:MOTOR,ON,2", "STATUS:LED,ON,1,ON,2,OFF", "STATUS:",
      "MODE:LED", "MODE:MOTOR", "MODE:FAN",
      "LED:ON", "LED:OFF", "LED:LEVEL:5", "LED:LEVEL:9", "LED:LEVEL:-2",
      "LED:LEVEL:x", "LED:LEVEL", "LED:BLINK",
      "MOTOR:ON", "MOTOR:OFF", "MOTOR:LEVEL:0", "MOTOR:LEVEL:7", "MOTOR:LEVEL:-1",
      "MOTOR:LEVEL:", "MOTOR:LEVEL", "MOTOR:STOP",
      "LED:ONLINE", "GARBAGE:1,2,3", "READY:OK", "ECHO:LED:ON" }

ReaderInit == Init /\ variant = "serial"

\* _monitor_responses takes one complete line; the line is kept in log
ReaderTakes(line) ==
    /\ ApplyLine(line)
    /\ log' = << line >>
    /\ UNCHANGED << arg, script_pos, more >>

ReaderNext == \E line \in ReaderLines : ReaderTakes(line)

ReaderSpec == ReaderInit /\ [][ReaderNext]_vars

\* C12: in the serial client led_level and motor_level are in 0..5 after any
\* sequence of inbound lines.
C12_ClientLevelsInRange ==
    variant = "serial" => led_level \in 0..5 /\ motor_level \in 0..5

\* the five fields as one record
ClientFields ==
    [ mode |-> mode, led_on |-> led_on, led_level |-> led_level,
      motor_on |-> motor_on, motor_level |-> motor_level ]

\* STATUS lines with five fields whose level fields are integers, and the
\* values their fields stand for
StatusValues ==
    [ line \in { "STATUS:MOTOR,ON,4,OFF,0", "STATUS:LED,OFF,9,ON,-1", "STATUS:FAN,on,2,ON,5" } |->
        CASE line = "STATUS:MOTOR,ON,4,OFF,0" ->
                 [ mode |-> "MOTOR", led_on |-> TRUE, led_level |-> 4,
                   motor_on |-> FALSE, motor_level |-> 0 ]
          [] line = "STATUS:LED,OFF,9,ON,-1" ->
                 [ mode |-> "LED", led_on |-> FALSE, led_level |-> 9,
                   motor_on |-> TRUE, motor_level |-> -1 ]
          [] line = "STATUS:FAN,on,2,ON,5" ->
                 [ mode |-> "FAN", led_on |-> FALSE, led_level |-> 2,
                   motor_on |-> TRUE, motor_level |-> 5 ] ]

\* STATUS lines with another number of fields than five
StatusOtherCount == { "STATUS:MOTOR,ON,2", "STATUS:LED,ON,1,ON,2,OFF", "STATUS:" }

\* C20: an inbound STATUS: line with exactly 5 comma-separated fields sets
\* mode, led_on, led_level, motor_on and motor_level to the values of its
\* fields (on is true iff the field is ON); a STATUS: line with any other
\* number of fields leaves all five unchanged.
C20_StatusLine ==
    [][ /\ \A line \in DOMAIN StatusValues :
               (actor' = "reader" /\ log' = << line >>) =>
                   ClientFields' = StatusValues[line] /\ reader_alive'
        /\ \A line \in StatusOtherCount :
               (actor' = "reader" /\ log' = << line >>) =>
                   ClientFields' = ClientFields /\ reader_alive' ]_vars

\* a five-field STATUS line was applied to a state that differed in every field
C20_Witness ==
    /\ log = << "STATUS:FAN,on,2,ON,5" >> /\ actor = "reader"
    /\ mode = "FAN" /\ ~led_on /\ led_level = 2 /\ motor_on /\ motor_level = 5

\* lines whose level field is not an integer
BadLevelLines ==
    { "STATUS:LED,ON,x,ON,1", "STATUS:MOTOR,ON,2,OFF,y", "LED:LEVEL:x", "MOTOR:LEVEL:" }

\* C21: applying an unparseable inbound line is all-or-nothing: a STATUS: line
\* with 5 fields, or an LED:LEVEL: / MOTOR:LEVEL: line, whose level field is not
\* an integer leaves mode, led_on, led_level, motor_on and motor_level as they
\* were.
C21_BadLineAllOrNothing ==
    [][ \A line \in BadLevelLines :
            (actor' = "reader" /\ log' = << line >>) => ClientFields' = ClientFields ]_vars

\* C22: after the reader task receives an unparseable line it keeps running
\* (so that the well-formed lines that arrive later can be applied).
C22_ReaderSurvivesBadLine ==
    [][ \A line \in BadLevelLines :
            (actor' = "reader" /\ log' = << line >>) => reader_alive' ]_vars

\* lines that start with none of the prefixes STATUS:, MODE:, LED:, MOTOR:
NoPrefixLines == { "GARBAGE:1,2,3", "READY:OK", "ECHO:LED:ON" }

\* C23: an inbound line that starts with none of the prefixes STATUS:, MODE:,
\* LED:, MOTOR: leaves mode, led_on, led_level, motor_on and motor_level
\* unchanged.
C23_UnknownPrefixIgnored ==
    [][ \A line \in NoPrefixLines :
            (actor' = "reader" /\ log' = << line >>) =>
                ClientFields' = ClientFields /\ reader_alive' ]_vars

\* GARBAGE:1,2,3 was taken in a state that differs from the initial one in
\* every field
C23_Witness ==
    /\ actor = "reader" /\ log = << "GARBAGE:1,2,3" >> /\ reader_alive
    /\ mode = "MOTOR" /\ led_on /\ led_level = 4 /\ motor_on /\ motor_level = 0

\* C24: an inbound LED: line changes only LED fields: LED:ON sets led_on true,
\* LED:OFF sets it false, LED:LEVEL:<n> sets led_level to n and leaves led_on
\* unchanged, an LED: line with any other suffix leaves the whole state
\* untouched; symmetrically for MOTOR: lines and the motor fields.
C24_DeviceLines ==
    [][ actor' = "reader" =>
        /\ log' = << "LED:ON" >>  => ClientFields' = [ClientFields EXCEPT !.led_on = TRUE]
        /\ log' = << "LED:OFF" >> => ClientFields' = [ClientFields EXCEPT !.led_on = FALSE]
        /\ log' = << "LED:LEVEL:5" >>  => ClientFields' = [ClientFields EXCEPT !.led_level = 5]
        /\ log' = << "LED:LEVEL:9" >>  => ClientFields' = [ClientFields EXCEPT !.led_level = 9]
        /\ log' = << "LED:LEVEL:-2" >> => ClientFields' = [ClientFields EXCEPT !.led_level = -2]
        /\ log' \in { << "LED:BLINK" >>, << "LED:ONLINE" >>, << "LED:LEVEL" >> } =>
               ClientFields' = ClientFields
        /\ log' = << "MOTOR:ON" >>  => ClientFields' = [ClientFields EXCEPT !.motor_on = TRUE]
        /\ log' = << "MOTOR:OFF" >> => ClientFields' = [ClientFields EXCEPT !.motor_on = FALSE]
        /\ log' = << "MOTOR:LEVEL:0" >>  => ClientFields' = [ClientFields EXCEPT !.motor_level = 0]
        /\ log' = << "MOTOR:LEVEL:7" >>  => ClientFields' = [ClientFields EXCEPT !.motor_level = 7]
        /\ log' = << "MOTOR:LEVEL:-1" >> => ClientFields' = [ClientFields EXCEPT !.motor_level = -1]
        /\ log' \in { << "MOTOR:STOP" >>, << "MOTOR:LEVEL" >> } =>
               ClientFields' = ClientFields ]_vars

\* C25: in the serial client the local mode is always exactly one of LED and
\* MOTOR.
C25_ModeIsLedOrMotor ==
    variant = "serial" => mode \in {"LED", "MOTOR"}
-----------------------------------------------------------------------------
(* The hardware and simulation loops fed one fixed script of frames:         *)
(* One, Open, ThumbsUp (t0), ThumbsUp (t0 + 2.0 s), ThumbsUp (t0 + 2.1 s),   *)
(* Closed.                                                                   *)

Script == << "ONE", "OPEN", "THUMBS_UP", "THUMBS_UP", "THUMBS_UP", "CLOSED" >>

\* The clock advance before frame i of the script.  Frame 4 comes exactly
\* HOLD_DURATION after frame 3; frame 5 comes a tenth of a second after
\* frame 4, when the whole-second clock shows the same second or the next;
\* the other frames come at any time.
ScriptDeltas(i) ==
    IF i = 4 THEN {HOLD_DURATION}
    ELSE IF i = 5 THEN {0, 1}
    ELSE 0..MaxDelta

ScriptInit == Init /\ variant \in {"hardware", "simulation"}

\* one loop iteration on the next frame of the script; what it did is
\* appended to log
ScriptFrame(dt, j) ==
    /\ variant \in {"hardware", "simulation"}
    /\ script_pos < Len(Script)
    /\ dt \in ScriptDeltas(script_pos + 1)
    /\ LET g == Script[script_pos + 1]
           t == now + dt
       IN  \E r \in { IF variant = "hardware"
                      THEN system_main_step(LoopState, g, t, t + j)
                      ELSE simulation_main_step(LoopState, g, t, t + j) } :
               /\ Commit(r, g, t, t + j)
               /\ log' = log \o r.out
    /\ script_pos' = script_pos + 1
    /\ arg' = arg
    /\ UNCHANGED more

ScriptNext ==
    \E dt \in 0..MaxDelta :
        \E j \in Jitters(Script[IF script_pos < Len(Script) THEN script_pos + 1 ELSE 1], dt) :
            ScriptFrame(dt, j)

ScriptSpec == ScriptInit /\ [][ScriptNext]_vars

\* C19 as claimed: from mode LED, LED off at level 0 and no hold session, the
\* script produces exactly [SetMode(Led), TurnOn, LevelUp, TurnOff] and ends
\* with the LED off at level 4.
C19_ScriptWithSetMode ==
    script_pos = Len(Script) =>
        /\ log = << "mode=LED", "led_turn_on", "increase_led", "led_turn_off" >>
        /\ ~led_on /\ led_level = 4

\* C19 (amended): the script produces exactly [TurnOn, LevelUp, TurnOff] (the
\* One frame finds the mode already LED and does nothing) and ends in mode
\* LED with the LED off at level 4 and the motor untouched.
C19_Script ==
    script_pos = Len(Script) =>
        /\ log = << "led_turn_on", "increase_led", "led_turn_off" >>
        /\ mode = "LED" /\ ~led_on /\ led_level = 4
        /\ ~motor_on /\ motor_level = 0

\* the script has been processed to its end, the fifth frame did not fire
C19_Witness ==
    script_pos = Len(Script) /\ gesture = "CLOSED" /\ ~led_on /\ led_level = 4
-----------------------------------------------------------------------------
(* Serial client, level commands *)

\* C17: in the serial client a repeat-fire event that occurs while the
\* locally tracked active device is off sends no UP/DOWN command to the peer.
C17_ClientNoLevelCommandWhileOff ==
    [][ (variant = "serial" /\ actor' = "main" /\ fired' /\ ~ActiveOn) =>
            \A i \in 1..Len(out') : out'[i] \notin LevelCommands ]_vars
-----------------------------------------------------------------------------
(* The ArduinoController object driven by any sequence of calls of its       *)
(* methods, from its construction on.                                        *)

\* ArduinoController.__init__: not connected, no port, no reader thread
ClientInit ==
    /\ ControlInit /\ variant = "serial"
    /\ ClassifierIdle /\ NothingInbound /\ NoStatistics
    /\ connected = FALSE
    /\ serial_ok = TRUE
    /\ reader_alive = FALSE
    /\ running = FALSE
    /\ is_open = FALSE
    /\ reader_pc = "while"
    /\ main_pc = "loop"
    /\ buffer = ""
    /\ pending = << >>
    /\ sending = << >>
    /\ ret = FALSE

\* arguments given to send_command
ClientCommands ==
    { "MODE:MOTOR", "LED:ON", "MOTOR:UP", "STATUS" }

\* the object as the methods see it; a write on a closed port raises like a
\* write on a broken one
ClientSelf ==
    [ mode |-> mode, led_on |-> led_on, led_level |-> led_level,
      motor_on |-> motor_on, motor_level |-> motor_level,
      connected |-> connected, serial_ok |-> (serial_ok /\ is_open), out |-> << >> ]

\* what the calls below leave alone
ClientCallUntouched ==
    UNCHANGED << variant, last_gesture, gesture_start_time, now, gesture, serial_ok,
                 frame_time, fired, ended_after, last_fire, run_start, run_fresh,
                 run_fires, arg, script_pos, hand, label, reader_pc, main_pc, buffer,
                 pending, sending, inbound, stats >>

\* connect(): the port cannot be opened ("none"), is opened but no READY:
\* line arrives within 5 seconds ("silent"), or READY: arrives and the reader
\* thread is started ("ready")
connect(outcome) ==
    /\ variant = "serial"
    /\ ~connected /\ ~is_open
    /\ is_open' = (outcome # "none")
    /\ connected' = (outcome = "ready")
    /\ running' = (outcome = "ready")
    /\ reader_alive' = (outcome = "ready")
    /\ ret' = (outcome = "ready")
    /\ actor' = "connect"
    /\ out' = << >>
    /\ log' = << outcome >>
    /\ ClientCallUntouched
    /\ UNCHANGED << mode, led_on, led_level, motor_on, motor_level >>

\* A call of a method of the controller that leaves the object as r (r.out:
\* the lines written); name and argument are kept in actor and log.
ClientCall(name, argument, r) ==
    /\ variant = "serial"
    /\ mode' = r.mode
    /\ led_on' = r.led_on
    /\ led_level' = r.led_level
    /\ motor_on' = r.motor_on
    /\ motor_level' = r.motor_level
    /\ out' = r.out
    /\ actor' = name
    /\ log' = << argument >>
    /\ ClientCallUntouched
    /\ UNCHANGED << connected, running, is_open, reader_alive >>

SendCommand(command) ==
    /\ ClientCall("send_command", command, send_command(ClientSelf, command))
    /\ ret' = send_command_result(ClientSelf, command)

SetMode(m) == ClientCall("set_mode", m, set_mode(ClientSelf, m)) /\ ret' = ret
TurnOnCall == ClientCall("turn_on", "", turn_on(ClientSelf)) /\ ret' = ret
TurnOffCall == ClientCall("turn_off", "", turn_off(ClientSelf)) /\ ret' = ret
IncreaseCall == ClientCall("increase", "", increase(ClientSelf)) /\ ret' = ret
DecreaseCall == ClientCall("decrease", "", decrease(ClientSelf)) /\ ret' = ret

\* disconnect(): running is cleared and the port, if there is one, closed
disconnect ==
    /\ variant = "serial"
    /\ running' = FALSE
    /\ is_open' = FALSE
    /\ actor' = "disconnect"
    /\ out' = << >>
    /\ log' = << >>
    /\ ret' = ret
    /\ ClientCallUntouched
    /\ UNCHANGED << mode, led_on, led_level, motor_on, motor_level, connected, reader_alive >>

MaxClientTime == 2           \* the clock of this specification runs from 0 to MaxClientTime

\* One iteration of main()'s loop, which runs from a successful connect to
\* the disconnect of the finally block.
ClientFrame(g, dt, j) ==
    /\ variant = "serial"
    /\ connected /\ running
    /\ now + dt + j <= MaxClientTime
    /\ UNCHANGED << aux, more >>
    /\ LET t == now + dt
       IN  \E r \in { client_main_step([LoopState EXCEPT !.serial_ok = serial_ok /\ is_open],
                                       g, t, t + j) } :
               Commit(r, g, t, t + j)

\* The frames, the calls, a failure of the serial link, and the reader thread applying a
\* line (it may do so even after disconnect, with a line it has already read).
ClientNext ==
    \/ \E g \in Frames, dt \in 0..MaxDelta : \E j \in Jitters(g, dt) : ClientFrame(g, dt, j)
    \/ \E outcome \in {"none", "silent", "ready"} : connect(outcome)
    \/ \E command \in ClientCommands : SendCommand(command)
    \/ \E m \in {"LED", "MOTOR"} : SetMode(m)
    \/ TurnOnCall
    \/ TurnOffCall
    \/ IncreaseCall
    \/ DecreaseCall
    \/ disconnect
    \/ SerialFailure
    \/ \E line \in InboundLines : MonitorResponses(line)

ClientSpec == ClientInit /\ [][ClientNext]_vars

\* C28: send_command attempts the write at most once per call; it returns
\* true iff the client is connected and write and flush succeed, false when
\* not connected or when the write fails; a failed call writes nothing and
\* leaves mode, on and level unchanged (as does a successful one).
C28_SendCommandOnce ==
    [][ actor' = "send_command" =>
            /\ ret' = (connected /\ is_open /\ serial_ok)
            /\ out' = IF ret' THEN << log'[1] \o "\n" >> ELSE << >>
            /\ ClientFields' = ClientFields ]_vars

\* send_command was called on a connected client whose port no longer works
C28_Witness ==
    /\ actor = "send_command" /\ log = << "MOTOR:UP" >>
    /\ connected /\ is_open /\ ~serial_ok /\ ~ret /\ out = << >> /\ mode = "MOTOR"

\* mode, on and level as ArduinoController.__init__ sets them
ClientDefaults ==
    [ mode |-> "LED", led_on |-> FALSE, led_level |-> 3,
      motor_on |-> FALSE, motor_level |-> 3 ]

\* C35: in the serial client the local mode, led_on, led_level, motor_on and
\* motor_level start at LED, off, 3, off, 3 and are changed by no step other
\* than the reader applying an inbound line: not by set_mode, turn_on,
\* turn_off, increase or decrease, nor by a frame with any gesture.
C35_LocalStateOnlyFromReader ==
    /\ ClientFields = ClientDefaults
    /\ [][ actor' # "reader" => ClientFields' = ClientFields ]_vars

\* an Open frame has written LED:ON and the local LED is still off
C35_Witness ==
    /\ actor = "main" /\ gesture = "OPEN" /\ out = << "LED:ON\n" >>
    /\ ClientFields = ClientDefaults
-----------------------------------------------------------------------------
(* The serial client with its two threads, statement by statement: the main  *)
(* loop reads arduino.mode, then writes; the reader thread reads bytes,      *)
(* splits them into lines and makes the assignments of _process_response one *)
(* at a time.  No lock protects the fields the two threads share.            *)

MaxThreadTime == 2           \* the clock of this specification runs from 0 to MaxThreadTime
MaxBufferLen == 24           \* the reader's buffer holds at most this many characters

\* what one read of the port may return
ThreadChunks ==
    { "STATUS:MOTOR,ON,4,OFF,0\n", "MODE:LED\nLED:ON\n", "MODE:MOTOR\r\nLED:OFF", "\n" }

Whitespace == { " ", "\t", "\n", "\r" }

\* s.strip()
RECURSIVE strip(_)
strip(s) ==
    IF Len(s) = 0 THEN s
    ELSE IF SubSeq(s, 1, 1) \in Whitespace THEN strip(SubSeq(s, 2, Len(s)))
    ELSE IF SubSeq(s, Len(s), Len(s)) \in Whitespace THEN strip(SubSeq(s, 1, Len(s) - 1))
    ELSE s

\* The statements _process_response executes for a line, in order: an
\* assignment [f |-> field, v |-> value], or [f |-> "raise"] where int()
\* raises ValueError (nothing after it is executed).
Assign(f, v) == [f |-> f, v |-> v]
RaiseValueError == [f |-> "raise", v |-> 0]
AssignInt(f, s) == IF IsInt(s) THEN Assign(f, int(s)) ELSE RaiseValueError

RECURSIVE UntilRaise(_)
UntilRaise(steps) ==
    IF steps = << >> THEN << >>
    ELSE IF Head(steps).f = "raise" THEN << Head(steps) >>
    ELSE << Head(steps) >> \o UntilRaise(Tail(steps))

_process_response_steps(line) ==
    IF startswith(line, "STATUS:") THEN
        LET parts == split(SubSeq(line, 8, Len(line)), ",") IN
        IF Len(parts) = 5 THEN
            UntilRaise(<< Assign("mode", parts[1]),
                          Assign("led_on", parts[2] = "ON"),
                          AssignInt("led_level", parts[3]),
                          Assign("motor_on", parts[4] = "ON"),
                          AssignInt("motor_level", parts[5]) >>)
        ELSE << >>
    ELSE IF startswith(line, "MODE:") THEN
        << Assign("mode", SubSeq(line, 6, Len(line))) >>
    ELSE IF startswith(line, "LED:") THEN
        IF contains(line, "ON") THEN << Assign("led_on", TRUE) >>
        ELSE IF contains(line, "OFF") THEN << Assign("led_on", FALSE) >>
        ELSE IF contains(line, "LEVEL:") THEN
            LET parts == split(line, ":") IN
            IF Len(parts) >= 3 THEN << AssignInt("led_level", parts[3]) >> ELSE << >>
        ELSE << >>
    ELSE IF startswith(line, "MOTOR:") THEN
        IF contains(line, "ON") THEN << Assign("motor_on", TRUE) >>
        ELSE IF contains(line, "OFF") THEN << Assign("motor_on", FALSE) >>
        ELSE IF contains(line, "LEVEL:") THEN
            LET parts == split(line, ":") IN
            IF Len(parts) >= 3 THEN << AssignInt("motor_level", parts[3]) >> ELSE << >>
        ELSE << >>
    ELSE << >>

ThreadInit == Init /\ variant = "serial"

\* what a step of one thread leaves alone
MainUntouched ==
    UNCHANGED << arg, script_pos, log, hand, label, reader_pc, buffer, pending, inbound,
                 stats >>

ReaderUntouched ==
    UNCHANGED << variant, last_gesture, gesture_start_time, now, gesture, connected,
                 serial_ok, frame_time, fired, out, ended_after, last_fire, run_start,
                 run_fresh, run_fires, arg, script_pos, hand, label, running, is_open,
                 main_pc, sending, ret, inbound, stats >>

\* main(): one loop iteration up to the point where a controller method has
\* read self.mode and chosen its line; the write comes in the next step of
\* the thread.
ThreadFrame(g, dt, j) ==
    /\ variant = "serial"
    /\ main_pc = "loop"
    /\ now + dt + j <= MaxThreadTime
    /\ LET t == now + dt
       IN  \E r \in { client_main_step([LoopState EXCEPT !.serial_ok = TRUE], g, t, t + j) } :
               /\ Commit([r EXCEPT !.out = << >>], g, t, t + j)
               /\ sending' = r.out
               /\ main_pc' = IF r.out = << >> THEN "loop" ELSE "write"
    /\ MainUntouched
    /\ UNCHANGED << running, is_open, ret >>

\* send_command: serial_conn.write and flush of the chosen line
MainWrites ==
    /\ variant = "serial"
    /\ main_pc = "write"
    /\ out' = IF connected /\ serial_ok /\ is_open THEN sending ELSE << >>
    /\ ret' = (connected /\ serial_ok /\ is_open)
    /\ sending' = << >>
    /\ main_pc' = "loop"
    /\ actor' = "write"
    /\ MainUntouched
    /\ UNCHANGED << variant, mode, led_on, led_level, motor_on, motor_level, last_gesture,
                    gesture_start_time, now, gesture, connected, serial_ok, reader_alive,
                    frame_time, fired, ended_after, last_fire, run_start, run_fresh,
                    run_fires, running, is_open >>

\* main() leaves its loop (q pressed, camera gone, KeyboardInterrupt) and
\* disconnect() begins: self.running = False
MainQuits ==
    /\ variant = "serial"
    /\ main_pc = "loop"
    /\ running' = FALSE
    /\ main_pc' = "closing"
    /\ actor' = "quit"
    /\ MainUntouched
    /\ UNCHANGED << variant, mode, led_on, led_level, motor_on, motor_level, last_gesture,
                    gesture_start_time, now, gesture, connected, serial_ok, reader_alive,
                    frame_time, fired, out, ended_after, last_fire, run_start, run_fresh,
                    run_fires, is_open, sending, ret >>

\* disconnect(): self.serial_conn.close(), and disconnect returns
DisconnectCloses ==
    /\ variant = "serial"
    /\ main_pc = "closing"
    /\ is_open' = FALSE
    /\ main_pc' = "exited"
    /\ actor' = "disconnect"
    /\ MainUntouched
    /\ UNCHANGED << variant, mode, led_on, led_level, motor_on, motor_level, last_gesture,
                    gesture_start_time, now, gesture, connected, serial_ok, reader_alive,
                    frame_time, fired, out, ended_after, last_fire, run_start, run_fresh,
                    run_fires, running, sending, ret >>

\* _monitor_responses: the test of the outer while
ReaderWhile ==
    /\ variant = "serial"
    /\ reader_pc = "while"
    /\ reader_pc' = IF running /\ is_open THEN "try" ELSE "done"
    /\ reader_alive' = (running /\ is_open)
    /\ actor' = "reader"
    /\ ReaderUntouched
    /\ UNCHANGED << mode, led_on, led_level, motor_on, motor_level, buffer, pending, log >>

\* _monitor_responses: in_waiting and read.  On a closed or broken port
\* in_waiting raises and the thread leaves its loop; with nothing waiting the
\* thread sleeps and tests the while again; otherwise data is appended to
\* the buffer.
ReaderRead(data) ==
    /\ variant = "serial"
    /\ reader_pc = "try"
    /\ Len(buffer) + Len(data) <= MaxBufferLen
    /\ IF ~(is_open /\ serial_ok)
       THEN reader_pc' = "done" /\ reader_alive' = FALSE /\ buffer' = buffer
       ELSE /\ reader_alive' = reader_alive
            /\ buffer' = buffer \o data
            /\ reader_pc' = IF data = "" THEN "while" ELSE "lines"
    /\ actor' = "reader"
    /\ ReaderUntouched
    /\ UNCHANGED << mode, led_on, led_level, motor_on, motor_level, pending, log >>

\* _monitor_responses: one turn of the inner while: the next line is cut off
\* the buffer and stripped, and _process_response is entered for it; with no
\* newline in the buffer the thread sleeps and tests the outer while again.
ReaderLine ==
    /\ variant = "serial"
    /\ reader_pc = "lines"
    /\ LET i == find(buffer, "\n", 1) IN
       IF i = 0
       THEN reader_pc' = "while" /\ UNCHANGED << buffer, pending, log >>
       ELSE LET line == strip(SubSeq(buffer, 1, i - 1))
                steps == IF line = "" THEN << >> ELSE _process_response_steps(line)
            IN  /\ buffer' = SubSeq(buffer, i + 1, Len(buffer))
                /\ log' = IF line = "" THEN log ELSE << line >>
                /\ pending' = steps
                /\ reader_pc' = IF steps = << >> THEN "lines" ELSE "assign"
    /\ actor' = "reader"
    /\ ReaderUntouched
    /\ UNCHANGED << mode, led_on, led_level, motor_on, motor_level, reader_alive >>

\* _process_response: its next statement.  A ValueError ends the thread
\* (except: break).
ReaderAssign ==
    /\ variant = "serial"
    /\ reader_pc = "assign"
    /\ LET s == Head(pending) IN
       /\ mode' = IF s.f = "mode" THEN s.v ELSE mode
       /\ led_on' = IF s.f = "led_on" THEN s.v ELSE led_on
       /\ led_level' = IF s.f = "led_level" THEN s.v ELSE led_level
       /\ motor_on' = IF s.f = "motor_on" THEN s.v ELSE motor_on
       /\ motor_level' = IF s.f = "motor_level" THEN s.v ELSE motor_level
       /\ reader_alive' = (s.f # "raise")
       /\ pending' = Tail(pending)
       /\ reader_pc' = IF s.f = "raise" THEN "done"
                       ELSE IF Tail(pending) = << >> THEN "lines" ELSE "assign"
    /\ actor' = "reader"
    /\ ReaderUntouched
    /\ UNCHANGED << buffer, log >>

ThreadNext ==
    \/ \E g \in Frames, dt \in 0..MaxDelta : \E j \in Jitters(g, dt) : ThreadFrame(g, dt, j)
    \/ MainWrites
    \/ MainQuits
    \/ DisconnectCloses
    \/ ReaderWhile
    \/ \E data \in ThreadChunks \cup {""} : ReaderRead(data)
    \/ ReaderLine
    \/ ReaderAssign

ThreadSpec == ThreadInit /\ [][ThreadNext]_vars

\* the lines of the outbound grammar, as written
OutboundLines ==
    { "MODE:LED\n", "MODE:MOTOR\n", "LED:ON\n", "LED:OFF\n", "LED:UP\n", "LED:DOWN\n",
      "MOTOR:ON\n", "MOTOR:OFF\n", "MOTOR:UP\n", "MOTOR:DOWN\n" }

\* C26: every line the serial client writes is one of the ten lines of the
\* outbound grammar followed by a newline, and an ON/OFF/UP/DOWN line carries
\* the LED prefix exactly when the local mode is LED at the time it is
\* written.
C26_OutboundGrammar ==
    [][ (variant = "serial" /\ actor' = "write") =>
            \A i \in 1..Len(out') :
                /\ out'[i] \in OutboundLines
                /\ ~startswith(out'[i], "MODE:") =>
                       (startswith(out'[i], "LED:") <=> mode = "LED") ]_vars

\* a STATUS line is partly applied: _process_response has made at least one
\* of its assignments and has at least one still to make
PartlyApplied ==
    /\ reader_pc = "assign"
    /\ startswith(log[1], "STATUS:")
    /\ Len(pending) < Len(_process_response_steps(log[1]))

\* C27: applying a STATUS line is atomic with respect to the frame-processing
\* step: no loop iteration of main() reads the fields while a STATUS line is
\* only partly applied.
C27_StatusAppliedAtomically ==
    [][ (variant = "serial" /\ actor' = "main") => ~PartlyApplied ]_vars

\* C29: after disconnect() has returned no inbound line is applied to the
\* state any more: the reader thread enters _process_response for no further
\* line and the five fields keep their values.
C29_NoLineAfterDisconnect ==
    [][ (variant = "serial" /\ main_pc = "exited") =>
            /\ ClientFields' = ClientFields
            /\ reader_pc' # "assign" ]_vars

\* the controller actions of the hardware and simulation loops
LocalActions ==
    { "mode=LED", "mode=MOTOR", "led_turn_on", "motor_turn_on", "led_turn_off",
      "motor_turn_off", "increase_led", "increase_motor", "decrease_led", "decrease_motor" }

\* C36: a frame performs at most one controller action, for every gesture and
\* in every state: the serial client writes at most one command, the hardware
\* and simulation loops apply at most one of mode change, turn-on, turn-off,
\* increase and decrease (so mode and device state never change together).
C36_OneActionPerFrame ==
    [][ (actor' = "main") =>
            /\ Len(out') <= 1
            /\ \A i \in 1..Len(out') :
                  out'[i] \in (IF variant = "serial" THEN OutboundLines ELSE LocalActions)
            /\ (variant \in Local) =>
                  /\ (mode' # mode) => (DeviceState' = DeviceState)
                  /\ (out' = << >>) => (mode' = mode /\ DeviceState' = DeviceState)
      ]_vars

\* a Two frame of the serial client in mode LED has written the mode command
\* and nothing else
C36_Witness ==
    /\ variant = "serial" /\ actor = "main" /\ gesture = "TWO"
    /\ mode = "LED" /\ out = << "MODE:MOTOR\n" >>

\* C38: in every state of each of the three control loops last_gesture is
\* None, THUMBS_UP or THUMBS_DOWN and gesture_start_time is None exactly when
\* last_gesture is None, so that a frame which computes the elapsed time (its
\* gesture equals last_gesture) has a start time to subtract.
C38_HoldSessionWellFormed ==
    /\ last_gesture \in Thumbs \cup {None}
    /\ (gesture_start_time = NoTime) <=> (last_gesture = None)
    /\ gesture_start_time # NoTime => gesture_start_time \in 0..now

\* an Open frame has come between ThumbsDown frames and the session is kept
C38_Witness ==
    /\ variant = "hardware" /\ actor = "main" /\ gesture = "OPEN"
    /\ last_gesture = "THUMBS_DOWN" /\ gesture_start_time = 1 /\ now = 3
-----------------------------------------------------------------------------
(* The reader thread alone, fed a byte stream of the peer in reads of any    *)
(* sizes.  One read and everything _monitor_responses does with it before    *)
(* the next read is one step.  A character outside ASCII is written \u       *)
(* followed by its code point in the strings of the model.                   *)

\* the characters with codes 32 to 95 and 97 to 126
AsciiLow == " !\"#$%&'()*+,-./0123456789:;<=>?@ABCDEFGHIJKLMNOPQRSTUVWXYZ[\\]^_"
AsciiHigh == "abcdefghijklmnopqrstuvwxyz{|}~"

AsciiCodes == {9, 10, 13} \cup (32..95) \cup (97..126)

\* the character with code b
Chr(b) ==
    CASE b = 9 -> "\t"
      [] b = 10 -> "\n"
      [] b = 13 -> "\r"
      [] b \in 32..95 -> SubSeq(AsciiLow, b - 31, b - 31)
      [] OTHER -> SubSeq(AsciiHigh, b - 96, b - 96)

Ord(c) == CHOOSE b \in AsciiCodes : Chr(b) = c

\* s.encode('utf-8') for an ASCII string s
Bytes(s) == [ i \in 1..Len(s) |-> Ord(SubSeq(s, i, i)) ]

\* bytes.decode('utf-8'): the text, or raised when UnicodeDecodeError is
\* raised.  A byte below 128 is a character; a lead byte 194..223 with a
\* continuation byte 128..191 after it is a character; a lead byte at the end
\* of the bytes or without continuation, and a continuation byte without
\* lead, raise.  (Sequences of three and four bytes are not in the streams.)
RECURSIVE decode_from(_, _, _)
decode_from(bytes, i, text) ==
    IF i > Len(bytes) THEN [text |-> text, raised |-> FALSE]
    ELSE IF bytes[i] < 128 THEN decode_from(bytes, i + 1, text \o Chr(bytes[i]))
    ELSE IF bytes[i] \in 194..223 /\ i < Len(bytes) /\ bytes[i + 1] \in 128..191 THEN
        decode_from(bytes, i + 2,
                    text \o "\\u" \o ToString((bytes[i] - 192) * 64 + (bytes[i + 1] - 128)))
    ELSE [text |-> "", raised |-> TRUE]

decode(bytes) == decode_from(bytes, 1, "")

\* The inner while of _monitor_responses from state st = [self, buffer,
\* passed, raised]: lines are cut off the buffer at "\n" and stripped, the
\* non-empty ones are passed to _process_response (and recorded in passed);
\* a ValueError ends the loop with raised set.
RECURSIVE drain(_)
drain(st) ==
    LET i == find(st.buffer, "\n", 1) IN
    IF i = 0 THEN st
    ELSE LET line == strip(SubSeq(st.buffer, 1, i - 1))
             rest == SubSeq(st.buffer, i + 1, Len(st.buffer))
         IN  IF line = "" THEN drain([st EXCEPT !.buffer = rest])
             ELSE LET r == _process_response(st.self, line)
                      st2 == [self |-> r.self, buffer |-> rest,
                              passed |-> Append(st.passed, line), raised |-> r.raised]
                  IN  IF r.raised THEN st2 ELSE drain(st2)

\* streams of well-formed ASCII lines: \r\n and \n ends, empty and blank
\* lines, text after the last newline
PlainStreams ==
    { Bytes("MODE:MOTOR\r\n\nLED:ON\n \t\nMOTOR:LEVEL:4\nLED:OF"),
      Bytes("STATUS:LED,ON,2,OFF,5\n\n  MOTOR:ON  \nMODE:LED"),
      Bytes("\nREADY:OK\nLED:LEVEL:1\r\n") }

\* a stream with a character of two bytes, and one with a level that is no number
Streams ==
    PlainStreams \cup
    { Bytes("MODE:") \o << 195, 169 >> \o Bytes("\nLED:ON\n"),
      Bytes("LED:LEVEL:x\nMOTOR:ON\n") }

ChunkInit ==
    /\ ControlInit /\ variant = "serial"
    /\ Connected /\ ClassifierIdle /\ NoStatistics
    /\ inbound \in [bytes : Streams, pos : {0}]

\* the reader finds n bytes waiting and reads them
ReaderReads(n) ==
    /\ variant = "serial"
    /\ reader_alive /\ running /\ is_open /\ serial_ok
    /\ inbound.pos + n <= Len(inbound.bytes)
    /\ inbound' = [inbound EXCEPT !.pos = inbound.pos + n]
    /\ LET data == decode(SubSeq(inbound.bytes, inbound.pos + 1, inbound.pos + n))
           self == [ mode |-> mode, led_on |-> led_on, led_level |-> led_level,
                     motor_on |-> motor_on, motor_level |-> motor_level ]
       IN  \E r \in { IF data.raised
                      THEN [self |-> self, buffer |-> buffer, passed |-> << >>, raised |-> TRUE]
                      ELSE drain([self |-> self, buffer |-> buffer \o data.text,
                                  passed |-> << >>, raised |-> FALSE]) } :
           /\ mode' = r.self.mode
           /\ led_on' = r.self.led_on
           /\ led_level' = r.self.led_level
           /\ motor_on' = r.self.motor_on
           /\ motor_level' = r.self.motor_level
           /\ buffer' = r.buffer
           /\ log' = log \o r.passed
           /\ reader_alive' = ~r.raised
    /\ NotAFrame("reader")
    /\ UNCHANGED << variant, last_gesture, gesture_start_time, now, gesture, connected,
                    serial_ok, last_fire, run_start, run_fresh, run_fires, arg, script_pos,
                    hand, label, running, is_open, reader_pc, main_pc, pending, sending, ret,
                    stats >>

ChunkNext == \E n \in 1..Len(inbound.bytes) : ReaderReads(n)

ChunkSpec == ChunkInit /\ [][ChunkNext]_vars

\* the stripped non-empty lines among the pieces 1..n of a text split at "\n"
RECURSIVE StrippedLines(_, _)
StrippedLines(pieces, n) ==
    IF n = 0 THEN << >>
    ELSE LET line == strip(pieces[n])
         IN  StrippedLines(pieces, n - 1) \o (IF line = "" THEN << >> ELSE << line >>)

\* The reader is still at work, the lines passed so far are the
\* newline-terminated lines of the bytes read so far, and the text after the
\* last newline is in the buffer.
Reassembled ==
    LET text == decode(SubSeq(inbound.bytes, 1, inbound.pos))
        pieces == split(text.text, "\n")
    IN  /\ reader_alive
        /\ ~text.raised
        /\ log = StrippedLines(pieces, Len(pieces) - 1)
        /\ buffer = pieces[Len(pieces)]

\* C39: however the byte stream is cut into reads, the reader goes on
\* reading and the lines passed to _process_response are the
\* newline-terminated, stripped, non-empty lines of the bytes read so far, in
\* order and once each, the text after the last newline staying in the buffer.
C39_LinesIndependentOfChunks ==
    (variant = "serial" /\ inbound.bytes # << >>) => Reassembled

\* the same, for the streams of well-formed ASCII lines
C39_PlainLinesReassembled ==
    (variant = "serial" /\ inbound.bytes \in PlainStreams) => Reassembled
-----------------------------------------------------------------------------
(* The gesture classifier (HandGestureDetector).  Coordinates are integers   *)
(* in hundredths of the normalised image size: 0.05 is 5 and 0.12 is 12.     *)

\* the landmarks that detect_gesture reads
LandmarkIds == {0, 3, 4, 6, 8, 9, 10, 12, 14, 16, 18, 20}

\* floor of the square root of n, by bisection between lo and hi
RECURSIVE isqrt_between(_, _, _)
isqrt_between(n, lo, hi) ==
    IF lo = hi THEN lo
    ELSE LET mid == (lo + hi + 1) \div 2
         IN IF mid * mid <= n THEN isqrt_between(n, mid, hi)
            ELSE isqrt_between(n, lo, mid - 1)

\* math.sqrt((point1.x - point2.x)**2 + (point1.y - point2.y)**2), in units of
\* one millionth of the image size (hundredths of a hundredth), rounded down
calculate_distance(point1, point2) ==
    LET sq == (point1.x - point2.x) * (point1.x - point2.x)
                + (point1.y - point2.y) * (point1.y - point2.y)
    IN isqrt_between(sq * 10000, 0, 15000)

is_finger_extended(landmarks, finger_tip_id, finger_pip_id) ==
    LET tip == landmarks[finger_tip_id]
        pip == landmarks[finger_pip_id]
    IN IF finger_tip_id = 4
       THEN IF landmarks[0].x < landmarks[9].x
            THEN tip.x < landmarks[3].x
            ELSE tip.x > landmarks[3].x
       ELSE tip.y < pip.y

finger_tips == << 4, 8, 12, 16, 20 >>
finger_pips == << 3, 6, 10, 14, 18 >>

\* the list `extended` of count_extended_fingers, as a set of tip ids; the
\* count it returns is the cardinality
count_extended_fingers(landmarks) ==
    { finger_tips[i] : i \in { j \in 1..5 :
          is_finger_extended(landmarks, finger_tips[j], finger_pips[j]) } }

other_fingers_closed(landmarks) ==
    /\ landmarks[8].y > landmarks[6].y
    /\ landmarks[12].y > landmarks[10].y
    /\ landmarks[16].y > landmarks[14].y
    /\ landmarks[20].y > landmarks[18].y

\* The conditions under which each return statement of detect_gesture is
\* reached, leaving aside the returns before it.
thumbs_up_rule(landmarks) ==
    LET extended_fingers == count_extended_fingers(landmarks)
    IN /\ 4 \in extended_fingers /\ Cardinality(extended_fingers) = 1
       /\ landmarks[4].y < landmarks[0].y
       /\ landmarks[4].y < landmarks[3].y - 5
       /\ other_fingers_closed(landmarks)

thumbs_down_rule(landmarks) ==
    LET extended_fingers == count_extended_fingers(landmarks)
    IN /\ 4 \in extended_fingers /\ Cardinality(extended_fingers) = 1
       /\ landmarks[4].y > landmarks[9].y + 5
       /\ other_fingers_closed(landmarks)

\* Mutation of two_rule: the test count == 2 is left out.
two_rule_without_count(landmarks) ==
    LET extended_fingers == count_extended_fingers(landmarks)
    IN /\ 8 \in extended_fingers /\ 12 \in extended_fingers
       /\ calculate_distance(landmarks[8], landmarks[12]) > 5 * 100

\* Mutation of closed_rule: every tip, not the average, must be below 0.12.
closed_rule_every_tip(landmarks) ==
    LET extended_fingers == count_extended_fingers(landmarks)
    IN /\ Cardinality(extended_fingers) = 0
       /\ \A i \in 1..5 :
             calculate_distance(landmarks[9], landmarks[finger_tips[i]]) < 12 * 100

one_rule(landmarks) ==
    LET extended_fingers == count_extended_fingers(landmarks)
    IN 8 \in extended_fingers /\ Cardinality(extended_fingers) = 1
          /\ ~(4 \in extended_fingers)

two_rule(landmarks) ==
    LET extended_fingers == count_extended_fingers(landmarks)
    IN /\ 8 \in extended_fingers /\ 12 \in extended_fingers
       /\ Cardinality(extended_fingers) = 2
       /\ calculate_distance(landmarks[8], landmarks[12]) > 5 * 100

open_rule(landmarks) ==
    LET extended_fingers == count_extended_fingers(landmarks)
    IN Cardinality(extended_fingers) >= 4 /\ 4 \in extended_fingers

\* sum of the five distances / 5 < 0.12
closed_rule(landmarks) ==
    LET extended_fingers == count_extended_fingers(landmarks)
        total == calculate_distance(landmarks[9], landmarks[4])
                   + calculate_distance(landmarks[9], landmarks[8])
                   + calculate_distance(landmarks[9], landmarks[12])
                   + calculate_distance(landmarks[9], landmarks[16])
                   + calculate_distance(landmarks[9], landmarks[20])
    IN Cardinality(extended_fingers) = 0 /\ total < 12 * 100 * 5

\* Mutation of detect_gesture: the thumbs-down block comes before the
\* thumbs-up block.
detect_gesture_thumbs_down_first(landmarks) ==
    IF thumbs_down_rule(landmarks) THEN "THUMBS_DOWN"
    ELSE IF thumbs_up_rule(landmarks) THEN "THUMBS_UP"
    ELSE IF one_rule(landmarks) THEN "ONE"
    ELSE IF two_rule(landmarks) THEN "TWO"
    ELSE IF open_rule(landmarks) THEN "OPEN"
    ELSE IF closed_rule(landmarks) THEN "CLOSED"
    ELSE "UNKNOWN"

detect_gesture(landmarks) ==
    IF thumbs_up_rule(landmarks) THEN "THUMBS_UP"
    ELSE IF thumbs_down_rule(landmarks) THEN "THUMBS_DOWN"
    ELSE IF one_rule(landmarks) THEN "ONE"
    ELSE IF two_rule(landmarks) THEN "TWO"
    ELSE IF open_rule(landmarks) THEN "OPEN"
    ELSE IF closed_rule(landmarks) THEN "CLOSED"
    ELSE "UNKNOWN"

\* A hand: wrist (0), thumb IP (3) and tip (4), the PIP joints of the four
\* fingers (6, 10, 14, 18; 10 is not the palm centre), the palm centre (9)
\* and the tips 8, 12, 16, 20.
Hand(wrist, thumb_tip, palm_y, index_y, middle, ring_y, pinky_y) ==
    [ i \in LandmarkIds |->
        CASE i = 0 -> wrist
          [] i = 3 -> [x |-> 50, y |-> 50]
          [] i = 4 -> thumb_tip
          [] i = 9 -> [x |-> 50, y |-> palm_y]
          [] i = 8 -> [x |-> 50, y |-> index_y]
          [] i = 12 -> middle
          [] i = 16 -> [x |-> 45, y |-> ring_y]
          [] i = 20 -> [x |-> 40, y |-> pinky_y]
          [] OTHER -> [x |-> 50, y |-> 50] ]

\* the hands given to the classifier: every comparison of detect_gesture is
\* met from both sides and at equality
Hands ==
    { Hand(wrist, thumb_tip, palm_y, index_y, middle, ring_y, pinky_y) :
        wrist \in [x : {40, 50, 60}, y : {25, 50}],
        thumb_tip \in [x : {40, 50, 60}, y : {30, 45, 55, 56}],
        palm_y \in {20, 50},
        index_y \in {40, 50, 60},
        middle \in [x : {55, 56}, y : {40, 50, 60}],
        ring_y \in {40, 50, 60},
        pinky_y \in {40, 50, 60} }

\* process_frame has found a hand
ClassifierInit ==
    /\ ControlInit /\ variant = "simulation"
    /\ Connected /\ NothingInbound /\ NoStatistics
    /\ hand \in Hands
    /\ label = None

\* gesture = self.detect_gesture(hand_landmarks.landmark)
Detect ==
    /\ hand # << >>
    /\ label = None
    /\ label' = detect_gesture(hand)
    /\ UNCHANGED << variant, mode, led_on, led_level, motor_on, motor_level, last_gesture,
                    gesture_start_time, now, gesture, actor, out, connected, serial_ok,
                    reader_alive, frame_time, fired, ended_after, last_fire, run_start,
                    run_fresh, run_fires, arg, script_pos, log, hand, running, is_open,
                    reader_pc, main_pc, buffer, pending, sending, ret, inbound,
                    stats >>

\* the hand as seen in the frame flipped horizontally (cv2.flip(frame, 1)):
\* every x becomes 1 - x
mirror(landmarks) ==
    [ i \in DOMAIN landmarks |-> [x |-> 100 - landmarks[i].x, y |-> landmarks[i].y] ]

\* the same hand is classified again in the flipped frame
DetectFlipped ==
    /\ hand # << >>
    /\ label # None
    /\ hand' = mirror(hand)
    /\ label' = detect_gesture(hand')
    /\ UNCHANGED << variant, mode, led_on, led_level, motor_on, motor_level, last_gesture,
                    gesture_start_time, now, gesture, actor, out, connected, serial_ok,
                    reader_alive, frame_time, fired, ended_after, last_fire, run_start,
                    run_fresh, run_fires, arg, script_pos, log, running, is_open,
                    reader_pc, main_pc, buffer, pending, sending, ret, inbound,
                    stats >>

ClassifierNext == Detect \/ DetectFlipped

ClassifierSpec == ClassifierInit /\ [][ClassifierNext]_vars

\* the rules in the order in which detect_gesture tries them
Rules(landmarks) ==
    << thumbs_up_rule(landmarks), thumbs_down_rule(landmarks), one_rule(landmarks),
       two_rule(landmarks), open_rule(landmarks), closed_rule(landmarks) >>

RuleLabels == << "THUMBS_UP", "THUMBS_DOWN", "ONE", "TWO", "OPEN", "CLOSED" >>

\* C30: the label is one of the seven; it is the label of the first rule, in
\* the order ThumbsUp, ThumbsDown, One, Two, Open, Closed, that the hand
\* satisfies, and Unknown when it satisfies none; a hand that satisfies both the
\* ThumbsUp and the ThumbsDown rule is labelled ThumbsUp; and no hand satisfies
\* two rules other than that pair.
C30_FirstRuleWins ==
    label # None =>
        LET rules == Rules(hand)
            matching == { i \in 1..6 : rules[i] }
        IN /\ label \in Gestures
           /\ matching = {} => label = "UNKNOWN"
           /\ matching # {} =>
                 \E i \in matching : /\ \A j \in matching : i <= j
                                     /\ label = RuleLabels[i]
           /\ ({1, 2} \subseteq matching) => label = "THUMBS_UP"
           /\ Cardinality(matching) <= 1 \/ matching = {1, 2}

\* a hand that satisfies both the ThumbsUp and the ThumbsDown rule has been
\* classified
C30_Witness ==
    /\ label = "THUMBS_UP"
    /\ thumbs_up_rule(hand) /\ thumbs_down_rule(hand)

\* sum of the distances from the palm centre to the five tips (the mean is
\* below 0.12 when the sum is below 5 * 0.12)
TipDistanceSum(landmarks) ==
    calculate_distance(landmarks[9], landmarks[4])
      + calculate_distance(landmarks[9], landmarks[8])
      + calculate_distance(landmarks[9], landmarks[12])
      + calculate_distance(landmarks[9], landmarks[16])
      + calculate_distance(landmarks[9], landmarks[20])

ExtendedCount(landmarks) == Cardinality(count_extended_fingers(landmarks))

\* C31: a hand with 0 extended fingers whose mean distance from the palm
\* centre to the five tips is below 0.12 is classified CLOSED.
C31_ClosedHand ==
    (label # None /\ ExtendedCount(hand) = 0 /\ TipDistanceSum(hand) < 5 * 1200)
        => label = "CLOSED"

\* a fist whose thumb tip is further than 0.12 from the palm centre while the
\* mean over the five tips is below 0.12
C31_Witness ==
    /\ label = "CLOSED"
    /\ ExtendedCount(hand) = 0
    /\ calculate_distance(hand[9], hand[4]) > 1200
    /\ TipDistanceSum(hand) < 5 * 1200

\* C32: a hand with 4 or more extended fingers, the thumb among them, is
\* classified OPEN.
C32_OpenHand ==
    (label # None /\ ExtendedCount(hand) >= 4 /\ 4 \in count_extended_fingers(hand))
        => label = "OPEN"

\* an open hand with exactly four extended fingers, index and middle apart
C32_Witness ==
    /\ label = "OPEN"
    /\ ExtendedCount(hand) = 4
    /\ count_extended_fingers(hand) = {4, 8, 12, 16}
    /\ calculate_distance(hand[8], hand[12]) > 500

\* C33: flipping the hand horizontally leaves is_finger_extended(hand, 4, 3),
\* the extended fingers and the label unchanged, also when wrist and palm
\* centre have the same x.
C33_MirrorInvariant ==
    [][ (label # None /\ hand' = mirror(hand)) =>
            /\ is_finger_extended(hand', 4, 3) = is_finger_extended(hand, 4, 3)
            /\ count_extended_fingers(hand') = count_extended_fingers(hand)
            /\ label' = label ]_vars

\* the same, for the hands whose wrist and palm centre differ in x
C33_MirrorInvariantOffCentre ==
    [][ (label # None /\ hand' = mirror(hand) /\ hand[0].x # hand[9].x) =>
            /\ is_finger_extended(hand', 4, 3) = is_finger_extended(hand, 4, 3)
            /\ count_extended_fingers(hand') = count_extended_fingers(hand)
            /\ label' = label ]_vars
-----------------------------------------------------------------------------
(* The statistics of the testing program (gesture_testing.py).  One frame,   *)
(* with everything process_frame and update_statistics do for it, is one     *)
(* step; the clock is read once per frame.                                   *)

MaxRuns == 3                 \* frames are processed while at most MaxRuns runs are counted
MaxStatsTime == 2            \* the clock of this specification runs from 0 to MaxStatsTime

\* the detector's statistics fields
StatsSelf ==
    [ gesture_counts |-> gesture_counts, last_gesture |-> last_gesture,
      gesture_start_time |-> gesture_start_time, gesture_duration |-> gesture_duration ]

\* Mutation of update_statistics: the gesture that begins is counted.
update_statistics_counts_new(self, g, t) ==
    IF g \in DOMAIN self.gesture_counts THEN
        LET s1 == IF g # self.last_gesture THEN
                      [self EXCEPT !.gesture_counts[g] = @ + 1,
                                   !.last_gesture = g,
                                   !.gesture_start_time = t]
                  ELSE self
        IN  IF g = s1.last_gesture /\ s1.gesture_start_time # NoTime
            THEN [s1 EXCEPT !.gesture_duration = t - s1.gesture_start_time]
            ELSE s1
    ELSE self

\* update_statistics(gesture) at time t
update_statistics(self, g, t) ==
    IF g \in DOMAIN self.gesture_counts THEN
        LET s1 == IF g # self.last_gesture THEN
                      LET s0 == IF self.last_gesture # None
                                THEN [self EXCEPT !.gesture_counts[self.last_gesture] = @ + 1]
                                ELSE self
                      IN  [s0 EXCEPT !.last_gesture = g, !.gesture_start_time = t]
                  ELSE self
        IN  IF g = s1.last_gesture /\ s1.gesture_start_time # NoTime
            THEN [s1 EXCEPT !.gesture_duration = t - s1.gesture_start_time]
            ELSE s1
    ELSE self

\* process_frame: the statistics after a frame with gesture g (None: no hand)
process_frame_statistics(self, g, t) ==
    IF g # None THEN update_statistics(self, g, t)
    ELSE LET s0 == IF self.last_gesture # None
                   THEN [self EXCEPT !.gesture_counts[self.last_gesture] = @ + 1]
                   ELSE self
         IN  [s0 EXCEPT !.last_gesture = None, !.gesture_start_time = NoTime,
                        !.gesture_duration = 0]

RECURSIVE SumCounts(_, _)
SumCounts(counts, labels) ==
    IF labels = {} THEN 0
    ELSE LET g == CHOOSE x \in labels : TRUE
         IN  counts[g] + SumCounts(counts, labels \ {g})

\* sum(statistics.values())
Total == SumCounts(gesture_counts, DOMAIN gesture_counts)

StatsInit ==
    /\ variant = "testing"
    /\ mode = "LED" /\ led_on = FALSE /\ motor_on = FALSE /\ led_level = 0 /\ motor_level = 0
    /\ last_gesture = None /\ gesture_start_time = NoTime /\ now = 0 /\ gesture = None
    /\ actor = "none" /\ frame_time = 0 /\ fired = FALSE /\ out = << >>
    /\ ended_after = NoTime /\ last_fire = NoTime /\ run_start = NoTime
    /\ run_fresh = FALSE /\ run_fires = 0 /\ arg = 0 /\ script_pos = 0 /\ log = << >>
    /\ connected = FALSE /\ serial_ok = TRUE /\ reader_alive = FALSE /\ running = FALSE
    /\ is_open = FALSE /\ reader_pc = "while" /\ main_pc = "loop" /\ buffer = ""
    /\ pending = << >> /\ sending = << >> /\ ret = FALSE
    /\ ClassifierIdle /\ NothingInbound /\ NoStatistics

StatsUntouched ==
    UNCHANGED << variant, mode, led_on, led_level, motor_on, motor_level, connected,
                 serial_ok, reader_alive, frame_time, fired, out, ended_after, last_fire,
                 run_start, run_fresh, run_fires, arg, script_pos, log, hand, label,
                 running, is_open, reader_pc, main_pc, buffer, pending, sending, ret,
                 inbound >>

\* one loop iteration of the testing program: a frame with gesture g, dt
\* after the previous one
StatsFrame(g, dt) ==
    /\ variant = "testing"
    /\ now + dt <= MaxStatsTime
    /\ Total <= MaxRuns
    /\ \E r \in { process_frame_statistics(StatsSelf, g, now + dt) } :
        /\ gesture_counts' = r.gesture_counts
        /\ last_gesture' = r.last_gesture
        /\ gesture_start_time' = r.gesture_start_time
        /\ gesture_duration' = r.gesture_duration
    /\ runs_done' = IF gesture # None /\ g # gesture THEN runs_done + 1 ELSE runs_done
    /\ now' = now + dt
    /\ gesture' = g
    /\ actor' = "main"
    /\ StatsUntouched

\* key 'r': the counts are set to 0
StatsReset ==
    /\ variant = "testing"
    /\ gesture_counts' = [g \in DOMAIN gesture_counts |-> 0]
    /\ runs_done' = 0
    /\ actor' = "reset"
    /\ UNCHANGED << last_gesture, gesture_start_time, gesture_duration, now, gesture >>
    /\ StatsUntouched

StatsNext ==
    \/ \E g \in Frames, dt \in 0..1 : StatsFrame(g, dt)
    \/ StatsReset

StatsSpec == StatsInit /\ [][StatsNext]_vars

\* C40: a run of consecutive frames with one label is counted once, for its
\* label, at the frame that ends it (another label or no hand); the run in
\* progress is not counted, and the sum of the counts is the number of runs
\* that have ended since the latest reset.
C40_RunsCountedOnce ==
    /\ [](Total = runs_done)
    /\ [][ (actor' = "main") =>
              gesture_counts' = IF gesture # None /\ gesture' # gesture
                                THEN [gesture_counts EXCEPT ![gesture] = @ + 1]
                                ELSE gesture_counts ]_vars

\* two runs of ONE and one of OPEN have ended, a third run of ONE is in
\* progress and not counted
C40_Witness ==
    /\ variant = "testing" /\ actor = "main" /\ gesture = "ONE" /\ last_gesture = "ONE"
    /\ gesture_counts["ONE"] = 2 /\ gesture_counts["OPEN"] = 1 /\ Total = 3
    /\ runs_done = 3

====
